---- MODULE Spec2Model ----
(***************************************************************************)
(* lachesis: a background poller (laches_mon) and a CLI (laches) that      *)
(* share one JSON store file.                                              *)
(*                                                                         *)
(* The sources declare LachesStore and Process twice: laches/src/lib.rs    *)
(* (process_information, uptime) and laches/src/store.rs (machine_data,    *)
(* process_list_options, daily_usage, tags, last_seen).  The store record  *)
(* of this model carries the fields of both declarations; every operation  *)
(* reads and writes exactly the fields its own code names.                 *)
(*                                                                         *)
(* Strings that the code inspects character by character (process names,   *)
(* patterns) are sequences of one-character strings.  Calendar dates are   *)
(* day numbers.  Option<T> is a sequence of length 0 (None) or 1 (Some).   *)
(***************************************************************************)
EXTENDS Integers, Sequences, FiniteSets, TLC

VARIABLES
    file,          \* store.json: [st |-> "empty" | "full", doc |-> store]
    today,         \* the wall-clock calendar day
    pollerPc,      \* laches_mon: "sleep" | "modified" | "created" | "dead"
    r_store,       \* laches_mon: tick's deserialized store
    snapshot,      \* laches_mon: what get_active_processes returned in this tick
    ticksDone,     \* number of ticks that wrote the file
    cliPc,         \* laches: "idle" | "loaded" | "ran" | "created" | "exited"
    laches_store,  \* laches: main's in-memory store
    cliRuns,       \* number of CLI invocations started
    hist,          \* observations of the run, read only by the properties
    \* two machines sharing one synced store file
    sync_file,     \* the synced store.json: [st, doc]
    m_pc,          \* machine -> "idle" | "loaded" | "modified"
    m_store,       \* machine -> its in-memory store
    m_cycles,      \* machine -> number of load/modify/save cycles completed
    m_hist,        \* observations: what each machine loaded and last wrote
    all_processes, \* the last result of get_all_processes, if still on screen
    \* the machine identity of one store directory
    env_hostname,  \* what COMPUTERNAME / HOSTNAME holds
    sidecar,       \* .machine_id: None when the file does not exist
    id_pc,         \* process -> "idle" | "generate" (inside get_machine_id)
    uuid_next,     \* number of UUIDs generated so far
    returned,      \* observations: the identifiers returned, in order
    \* one Process and its ledger
    ledger_proc,   \* the Process
    ledger_calls,  \* observations: the add_time calls made, [day, seconds]
    \* the pattern matcher
    match_in,      \* [process_name, patterns]
    match_out,     \* None before the call, Some(result) after
    \* the report's filter
    report_in,     \* [windows, options, tag_filter]
    report_out,    \* None before the call, Some(kept windows) after
    \* the report, list_processes
    list_in,       \* [store, tag_filter, today_only, date_filter, all_machines]
    list_out,      \* None before the call, Some([all_windows, day, rows]) after
    \* the tag command on one store
    tag_store,     \* laches_store as handle_tag_command leaves it
    tag_last,      \* observations: the last tag command and the tags it found
    \* one laches invocation after the other on one store directory
    cmd_file,      \* store.json: [st, doc]
    cmd_store,     \* main's in-memory store
    cmd_pc,        \* "idle" | "loaded" | "ran"
    cmd_last,      \* observations: the last command and what it found
    \* the start and stop commands and the pollers they spawn and kill
    mon_store,     \* store.json's document
    mon_running,   \* the process ids of the laches_mon processes alive
    mon_spawned,   \* number of processes spawned so far
    mon_ticked,    \* the pollers that have ticked in the current interval
    mon_clock      \* number of update intervals that have passed

MainVars == <<file, today, pollerPc, r_store, snapshot, ticksDone,
              cliPc, laches_store, cliRuns, hist>>
SyncVars == <<sync_file, m_pc, m_store, m_cycles, m_hist, all_processes>>
IdVars == <<env_hostname, sidecar, id_pc, uuid_next, returned>>
LedgerVars == <<ledger_proc, ledger_calls>>
MatchVars == <<match_in, match_out>>
ReportVars == <<report_in, report_out>>
ListVars == <<list_in, list_out>>
TagVars == <<tag_store, tag_last>>
CmdVars == <<cmd_file, cmd_store, cmd_pc, cmd_last>>
MonVars == <<mon_store, mon_running, mon_spawned, mon_ticked, mon_clock>>

vars == <<MainVars, SyncVars, IdVars, LedgerVars, MatchVars, ReportVars,
          ListVars, TagVars, CmdVars, MonVars>>

(* what each part of the model never touches *)
NotMain == <<SyncVars, IdVars, LedgerVars, MatchVars, ReportVars, ListVars,
             TagVars, CmdVars, MonVars>>
NotSync == <<MainVars, IdVars, LedgerVars, MatchVars, ReportVars, ListVars,
             TagVars, CmdVars, MonVars>>
NotId == <<MainVars, SyncVars, LedgerVars, MatchVars, ReportVars, ListVars,
           TagVars, CmdVars, MonVars>>
NotLedger == <<MainVars, SyncVars, IdVars, MatchVars, ReportVars, ListVars,
               TagVars, CmdVars, MonVars>>
NotMatch == <<MainVars, SyncVars, IdVars, LedgerVars, ReportVars, ListVars,
              TagVars, CmdVars, MonVars>>
NotReport == <<MainVars, SyncVars, IdVars, LedgerVars, MatchVars, ListVars,
               TagVars, CmdVars, MonVars>>
NotList == <<MainVars, SyncVars, IdVars, LedgerVars, MatchVars, ReportVars,
             TagVars, CmdVars, MonVars>>
NotTag == <<MainVars, SyncVars, IdVars, LedgerVars, MatchVars, ReportVars,
            ListVars, CmdVars, MonVars>>
NotCmd == <<MainVars, SyncVars, IdVars, LedgerVars, MatchVars, ReportVars,
            ListVars, TagVars, MonVars>>
NotMon == <<MainVars, SyncVars, IdVars, LedgerVars, MatchVars, ReportVars,
            ListVars, TagVars, CmdVars>>
(* the report reads the identity of the store directory *)
NotListNorId == <<MainVars, SyncVars, LedgerVars, MatchVars, ReportVars,
                  TagVars, CmdVars, MonVars>>

----------------------------------------------------------------------------
(* Bounds of the exploration *)

MaxTicks == 2
MaxCli == 1
MaxDay == 2
MaxProcs == 2

(* Program constants *)

DefaultUpdateInterval == 5
MillisPerSecond == 1000
(* daemon_pid's default, u32::MAX; only ever compared for equality *)
U32Max == -1

----------------------------------------------------------------------------
(* Names *)

NameA == <<"a">>
NameB == <<"b">>
Titles == {NameA, NameB}
RawNames == Titles \cup {<<" ">>}
Hostname == "host"
HostKey == <<Hostname>>

Some(x) == <<x>>
None == <<>>

Min(S) == CHOOSE x \in S : \A y \in S : x <= y

RECURSIVE TrimStart(_)
TrimStart(s) ==
    IF s /= <<>> /\ Head(s) = " " THEN TrimStart(Tail(s)) ELSE s

RECURSIVE TrimEnd(_)
TrimEnd(s) ==
    IF s /= <<>> /\ s[Len(s)] = " " THEN TrimEnd(SubSeq(s, 1, Len(s) - 1)) ELSE s

Trim(s) == TrimEnd(TrimStart(s))

----------------------------------------------------------------------------
(* Process and its usage ledger *)

EmptyLedger == [d \in {} |-> 0]

ProcessNew(title, day) ==
    [title |-> title, uptime |-> 0, daily_usage |-> EmptyLedger,
     tags |-> <<>>, last_seen |-> day]

usage_on(p, day) ==
    IF day \in DOMAIN p.daily_usage THEN p.daily_usage[day] ELSE 0

get_today_usage(p, day) == usage_on(p, day)

RECURSIVE SumLedger(_, _)
SumLedger(ledger, days) ==
    IF days = {} THEN 0
    ELSE LET d == CHOOSE x \in days : TRUE
         IN  ledger[d] + SumLedger(ledger, days \ {d})

get_total_usage(p) == SumLedger(p.daily_usage, DOMAIN p.daily_usage)

(* an add_time that stores the amount instead of adding it *)
add_time_overwrite(p, seconds, day) ==
    [p EXCEPT
        !.daily_usage = [d \in DOMAIN p.daily_usage \cup {day} |->
                            IF d = day THEN seconds ELSE p.daily_usage[d]],
        !.last_seen = day]

add_time(p, seconds, day) ==
    LET current == usage_on(p, day)
        keys == DOMAIN p.daily_usage \cup {day}
    IN  [p EXCEPT
            !.daily_usage = [d \in keys |->
                                IF d = day THEN current + seconds
                                ELSE p.daily_usage[d]],
            !.last_seen = day]

----------------------------------------------------------------------------
(* The store *)

DefaultOptions ==
    [mode |-> "Default", whitelist |-> None, blacklist |-> None, tags |-> None]

NoMachines == [k \in {} |-> <<>>]

DefaultStore ==
    [daemon_pid |-> U32Max,
     autostart |-> TRUE,
     update_interval |-> DefaultUpdateInterval,
     process_information |-> <<>>,
     machine_data |-> NoMachines,
     process_list_options |-> DefaultOptions]

(* A store left by earlier runs: one tracked process with a ledger entry,  *)
(* both in the poller's list and under the hostname key.                   *)
SeededProcess ==
    [title |-> NameA, uptime |-> DefaultUpdateInterval * MillisPerSecond,
     daily_usage |-> [d \in {1} |-> DefaultUpdateInterval],
     tags |-> <<>>, last_seen |-> 1]

SeededStore ==
    [DefaultStore EXCEPT
        !.process_information = <<SeededProcess>>,
        !.machine_data = [k \in {HostKey} |-> <<SeededProcess>>]]

InitStores == {SeededStore}

Full(store) == [st |-> "full", doc |-> store]
Truncated == [st |-> "empty", doc |-> DefaultStore]

machine_list(store, key) ==
    IF key \in DOMAIN store.machine_data THEN store.machine_data[key] ELSE <<>>

(* HashMap::entry(key).or_default(): the key exists afterwards *)
entry_or_default(store, key) ==
    IF key \in DOMAIN store.machine_data THEN store
    ELSE [store EXCEPT !.machine_data =
            [k \in DOMAIN store.machine_data \cup {key} |->
                IF k = key THEN <<>> ELSE store.machine_data[k]]]

get_current_machine_processes(store) == machine_list(store, HostKey)

get_current_machine_processes_mut(store) == entry_or_default(store, HostKey)

(* save_store / tick's write-back: File::create truncates, write_all fills *)
file_create == Truncated

(* a write that leaves the poller's list out of the document *)
save_without_list(store) == Full([store EXCEPT !.process_information = <<>>])

save_store_write(store) == Full(store)

----------------------------------------------------------------------------
(* laches_mon *)

RECURSIVE get_active_from(_, _, _)
get_active_from(raw, acc, day) ==
    IF raw = <<>> THEN acc
    ELSE LET name == Head(raw)
             contains_title == \E i \in 1..Len(acc) : acc[i].title = name
         IN  IF Trim(name) = <<>> \/ contains_title
             THEN get_active_from(Tail(raw), acc, day)
             ELSE get_active_from(Tail(raw), Append(acc, ProcessNew(name, day)), day)

get_active_processes(raw, day) == get_active_from(raw, <<>>, day)

RawSnapshots == UNION {[1..n -> RawNames] : n \in 0..MaxProcs}

(* a search that overlooks every stored entry *)
find_nothing(list, title) == {}

tick_find(list, title) == {i \in 1..Len(list) : list[i].title = title}

(* a tick that replaces the stored entry by the freshly observed one *)
tick_one_fresh(list, active_process, interval) ==
    LET found == tick_find(list, active_process.title)
    IN  IF found /= {}
        THEN [list EXCEPT ![Min(found)] = active_process]
        ELSE Append(list, active_process)

tick_one(list, active_process, interval) ==
    LET found == tick_find(list, active_process.title)
    IN  IF found /= {}
        THEN [list EXCEPT ![Min(found)].uptime = @ + interval * MillisPerSecond]
        ELSE Append(list, active_process)

RECURSIVE tick_loop(_, _, _)
tick_loop(list, active, interval) ==
    IF active = <<>> THEN list
    ELSE tick_loop(tick_one(list, Head(active), interval), Tail(active), interval)

tick_modify(store, active, interval) ==
    [store EXCEPT !.process_information = tick_loop(@, active, interval)]

TitlesOf(list) == {list[i].title : i \in 1..Len(list)}

(* the uptime recorded for a title in a list; -1 when the list has no entry *)
Uptime(list, title) ==
    IF tick_find(list, title) = {} THEN -1
    ELSE list[Min(tick_find(list, title))].uptime

----------------------------------------------------------------------------
(* Observations kept for the properties; no operation of the program reads *)
(* them.                                                                   *)

Watched == NameB

NoHist ==
    [allLive |-> TRUE,            \* every tick so far saw Watched and wrote today
     tickedToday |-> FALSE,       \* the last tick wrote on the current day
     lastTickDoc |-> DefaultStore, \* what the last tick wrote
     cliWroteSinceTick |-> FALSE, \* the CLI wrote after the last tick's write
     tickReadInWin |-> FALSE,     \* the running tick read after the CLI's load
     winDone |-> FALSE,           \* a whole tick ran between load and save
     winLive |-> {}]              \* titles live in the last such tick

InWindow == cliPc \in {"loaded", "ran"}

----------------------------------------------------------------------------
(* laches_mon: main's loop calls tick once per interval; a tick that       *)
(* returns Err panics the process (expect).                                *)

TickRead ==
    /\ pollerPc = "sleep"
    /\ ticksDone < MaxTicks
    /\ file.st = "full"
    /\ \E raw \in RawSnapshots :
          LET active == get_active_processes(raw, today)
          IN  /\ snapshot' = active
              /\ r_store' = tick_modify(file.doc, active, DefaultUpdateInterval)
    /\ pollerPc' = "modified"
    /\ hist' = [hist EXCEPT !.tickReadInWin = InWindow]
    /\ UNCHANGED <<file, today, ticksDone, cliPc, laches_store, cliRuns>>
    /\ UNCHANGED NotMain

(* a loop that logs the failed tick and goes on with the next one *)
TickReadSkip ==
    /\ pollerPc = "sleep"
    /\ ticksDone < MaxTicks
    /\ file.st = "empty"
    /\ ticksDone' = ticksDone + 1
    /\ UNCHANGED <<file, today, pollerPc, r_store, snapshot,
                   cliPc, laches_store, cliRuns, hist>>
    /\ UNCHANGED NotMain
TickReadFail ==
    /\ pollerPc = "sleep"
    /\ ticksDone < MaxTicks
    /\ file.st = "empty"
    /\ pollerPc' = "dead"
    /\ UNCHANGED <<file, today, r_store, snapshot, ticksDone,
                   cliPc, laches_store, cliRuns, hist>>
    /\ UNCHANGED NotMain

TickCreate ==
    /\ pollerPc = "modified"
    /\ file' = file_create
    /\ pollerPc' = "created"
    /\ UNCHANGED <<today, r_store, snapshot, ticksDone,
                   cliPc, laches_store, cliRuns, hist>>
    /\ UNCHANGED NotMain

tick_write(store) == Full(store)

TickWrite ==
    /\ pollerPc = "created"
    /\ file' = tick_write(r_store)
    /\ pollerPc' = "sleep"
    /\ ticksDone' = ticksDone + 1
    /\ r_store' = DefaultStore
    /\ snapshot' = <<>>
    /\ hist' = [hist EXCEPT
            !.allLive = /\ @
                        /\ Watched \in TitlesOf(snapshot)
                        /\ (ticksDone = 0 \/ hist.tickedToday),
            !.tickedToday = TRUE,
            !.lastTickDoc = r_store,
            !.cliWroteSinceTick = FALSE,
            !.winDone = @ \/ (hist.tickReadInWin /\ InWindow),
            !.winLive = IF hist.tickReadInWin /\ InWindow
                        THEN TitlesOf(snapshot) ELSE @]
    /\ UNCHANGED <<today, cliPc, laches_store, cliRuns>>
    /\ UNCHANGED NotMain

NextDay ==
    /\ today < MaxDay
    /\ today' = today + 1
    /\ hist' = [hist EXCEPT !.tickedToday = FALSE,
                            !.allLive = @ /\ ticksDone = 0]
    /\ UNCHANGED <<file, pollerPc, r_store, snapshot, ticksDone,
                   cliPc, laches_store, cliRuns>>
    /\ UNCHANGED NotMain

----------------------------------------------------------------------------
(* laches: main loads the store, runs one command, saves the store         *)

ToLowerChar(c) ==
    CASE c = "Y" -> "y" [] c = "E" -> "e" [] c = "S" -> "s" [] c = "N" -> "n"
      [] OTHER -> c

to_lowercase(s) == [i \in 1..Len(s) |-> ToLowerChar(s[i])]

(* a confirmation that is content with a leading y *)
confirm_leading_y(input) ==
    Trim(input) /= <<>> /\ ToLowerChar(Trim(input)[1]) = "y"

confirm(input) ==
    to_lowercase(Trim(input)) \in {<<"y">>, <<"y", "e", "s">>}

Answers == {<<"y">>, <<"Y", "e", "s">>, <<" ", "y", " ">>, <<"n">>, <<>>,
            <<"y", "e">>}

ListModeFromStr(input) ==
    CASE input = "whitelist" -> Some("Whitelist")
      [] input = "blacklist" -> Some("Blacklist")
      [] input = "default" -> Some("Default")
      [] OTHER -> None

ModeInputs == {"whitelist", "Whitelist"}

set_mode(store, mode) ==
    LET parsed == ListModeFromStr(mode)
    IN  IF parsed /= None
        THEN [ok |-> TRUE,
              store |-> [store EXCEPT !.process_list_options.mode = parsed[1]]]
        ELSE [ok |-> FALSE, store |-> store]

clear_ledgers(list) ==
    [i \in 1..Len(list) |-> [list[i] EXCEPT !.daily_usage = EmptyLedger]]

confirm_delete_all(store, answer) ==
    IF confirm(answer)
    THEN LET s == get_current_machine_processes_mut(store)
         IN  [s EXCEPT !.machine_data[HostKey] = clear_ledgers(@)]
    ELSE store

CliLoad ==
    /\ cliPc \in {"idle", "exited"}
    /\ cliRuns < MaxCli
    /\ file.st = "full"
    /\ laches_store' = file.doc
    /\ cliPc' = "loaded"
    /\ cliRuns' = cliRuns + 1
    /\ hist' = [hist EXCEPT !.tickReadInWin = FALSE, !.winDone = FALSE,
                            !.winLive = {}]
    /\ UNCHANGED <<file, today, pollerPc, r_store, snapshot, ticksDone>>
    /\ UNCHANGED NotMain

CliLoadFail ==
    /\ cliPc \in {"idle", "exited"}
    /\ cliRuns < MaxCli
    /\ file.st = "empty"
    /\ laches_store' = DefaultStore
    /\ cliPc' = "exited"
    /\ cliRuns' = cliRuns + 1
    /\ hist' = [hist EXCEPT !.tickReadInWin = FALSE, !.winDone = FALSE,
                            !.winLive = {}]
    /\ UNCHANGED <<file, today, pollerPc, r_store, snapshot, ticksDone>>
    /\ UNCHANGED NotMain

CliSetMode ==
    /\ cliPc = "loaded"
    /\ \E mode \in ModeInputs :
          LET r == set_mode(laches_store, mode)
          IN  /\ laches_store' = r.store
              /\ cliPc' = IF r.ok THEN "ran" ELSE "exited"
    /\ UNCHANGED <<file, today, pollerPc, r_store, snapshot, ticksDone,
                   cliRuns, hist>>
    /\ UNCHANGED NotMain

CliDeleteAll ==
    /\ cliPc = "loaded"
    /\ \E answer \in Answers :
          laches_store' = confirm_delete_all(laches_store, answer)
    /\ cliPc' = "ran"
    /\ UNCHANGED <<file, today, pollerPc, r_store, snapshot, ticksDone,
                   cliRuns, hist>>
    /\ UNCHANGED NotMain

CliSaveCreate ==
    /\ cliPc = "ran"
    /\ file' = file_create
    /\ cliPc' = "created"
    /\ hist' = [hist EXCEPT !.cliWroteSinceTick = TRUE]
    /\ UNCHANGED <<today, pollerPc, r_store, snapshot, ticksDone,
                   laches_store, cliRuns>>
    /\ UNCHANGED NotMain

CliSaveWrite ==
    /\ cliPc = "created"
    /\ file' = save_store_write(laches_store)
    /\ cliPc' = "exited"
    /\ hist' = [hist EXCEPT !.cliWroteSinceTick = TRUE]
    /\ UNCHANGED <<today, pollerPc, r_store, snapshot, ticksDone,
                   laches_store, cliRuns>>
    /\ UNCHANGED NotMain

----------------------------------------------------------------------------
(* The machine identity: get_machine_id reads the sidecar file, and when   *)
(* that yields nothing it generates an identifier and writes it back.      *)
(* Nothing is held between the read and the write, and the results of      *)
(* create_dir_all and write are discarded.                                 *)

MaxCalls == 5

IdProcs == {"p1", "p2"}

Hostnames == {<<"h">>, <<" ", "h">>}

(* the n-th UUID that Uuid::new_v4 hands out; distinct for distinct n *)
Uuid(n) == <<"u">> \o [i \in 1..n |-> "i"]

format_machine_id(hostname, uuid) == hostname \o <<"_">> \o uuid

(* the read half: Some(id) when the sidecar holds a non-blank identifier *)
read_machine_id(content) ==
    IF content /= None /\ Trim(content[1]) /= <<>>
    THEN Some(Trim(content[1]))
    ELSE None

get_hostname == env_hostname

IdRead(p) ==
    /\ id_pc[p] = "idle"
    /\ Len(returned) + Cardinality({q \in IdProcs : id_pc[q] = "generate"})
          < MaxCalls
    /\ LET existing == read_machine_id(sidecar)
       IN  IF existing /= None
           THEN /\ returned' = Append(returned, existing[1])
                /\ UNCHANGED id_pc
           ELSE /\ id_pc' = [id_pc EXCEPT ![p] = "generate"]
                /\ UNCHANGED returned
    /\ UNCHANGED <<env_hostname, sidecar, uuid_next>>
    /\ UNCHANGED NotId

IdGenerate(p) ==
    /\ id_pc[p] = "generate"
    /\ LET machine_id == format_machine_id(get_hostname, Uuid(uuid_next + 1))
       IN  /\ \E written \in BOOLEAN :
                sidecar' = IF written THEN Some(machine_id) ELSE sidecar
           /\ returned' = Append(returned, machine_id)
    /\ uuid_next' = uuid_next + 1
    /\ id_pc' = [id_pc EXCEPT ![p] = "idle"]
    /\ UNCHANGED env_hostname
    /\ UNCHANGED NotId

----------------------------------------------------------------------------
(* Two machines, each with its own machine identifier, keep one store file *)
(* in a synced folder.  A cycle loads the file, finds or creates one       *)
(* process in the machine's own list and adds an interval, then saves.     *)

MaxCycles == 2

Machines == {"m1", "m2"}

MachineId ==
    [m \in Machines |->
        IF m = "m1" THEN format_machine_id(<<"h">>, Uuid(1))
        ELSE format_machine_id(<<"g">>, Uuid(2))]

(* a store that forgets every other machine's list *)
only_own_entry(store, machine_id) ==
    [store EXCEPT !.machine_data =
        [k \in {machine_id} |-> machine_list(store, machine_id)]]

get_machine_processes(store, machine_id) == machine_list(store, machine_id)

get_machine_processes_mut(store, machine_id) ==
    entry_or_default(store, machine_id)

record_usage(store, machine_id, title, seconds, day) ==
    LET s == get_machine_processes_mut(store, machine_id)
        current_machine_processes == s.machine_data[machine_id]
        found == tick_find(current_machine_processes, title)
    IN  [s EXCEPT !.machine_data[machine_id] =
            IF found /= {}
            THEN [@ EXCEPT ![Min(found)] = add_time(@, seconds, day)]
            ELSE Append(@, add_time(ProcessNew(title, day), seconds, day))]

(* the orders in which HashMap::values may visit the keys *)
Orders(keys) ==
    {o \in [1..Cardinality(keys) -> keys] :
        \A i, j \in 1..Cardinality(keys) : o[i] = o[j] => i = j}

RECURSIVE get_all_merged(_, _)
(* a listing that keeps one entry per title *)
get_all_merged(store, order) ==
    IF order = <<>> THEN <<>>
    ELSE LET first == get_all_merged(store, SubSeq(order, 1, Len(order) - 1))
             Fresh(p) == p.title \notin TitlesOf(first)
         IN  first \o SelectSeq(store.machine_data[order[Len(order)]], Fresh)

RECURSIVE get_all_processes(_, _)
get_all_processes(store, order) ==
    IF order = <<>> THEN <<>>
    ELSE store.machine_data[Head(order)] \o get_all_processes(store, Tail(order))

NothingListed == [listed |-> FALSE, of |-> DefaultStore, out |-> <<>>]

NoSyncHist ==
    [atLoad |-> [m \in Machines |-> DefaultStore],   \* the document m loaded
     lastWrote |-> [m \in Machines |-> <<>>]]        \* m's list as m last saved it

SyncLoad(m) ==
    /\ m_pc[m] = "idle"
    /\ m_cycles[m] < MaxCycles
    /\ sync_file.st = "full"
    /\ m_store' = [m_store EXCEPT ![m] = sync_file.doc]
    /\ m_pc' = [m_pc EXCEPT ![m] = "loaded"]
    /\ m_hist' = [m_hist EXCEPT !.atLoad[m] = sync_file.doc]
    /\ all_processes' = NothingListed
    /\ UNCHANGED <<sync_file, m_cycles>>
    /\ UNCHANGED NotSync

SyncModify(m) ==
    /\ m_pc[m] = "loaded"
    /\ \E title \in Titles :
          m_store' = [m_store EXCEPT ![m] =
                        record_usage(@, MachineId[m], title,
                                     @.update_interval, today)]
    /\ m_pc' = [m_pc EXCEPT ![m] = "modified"]
    /\ all_processes' = NothingListed
    /\ UNCHANGED <<sync_file, m_cycles, m_hist>>
    /\ UNCHANGED NotSync

SyncSave(m) ==
    /\ m_pc[m] = "modified"
    /\ sync_file' = save_store_write(m_store[m])
    /\ m_pc' = [m_pc EXCEPT ![m] = "idle"]
    /\ m_cycles' = [m_cycles EXCEPT ![m] = @ + 1]
    /\ m_hist' = [m_hist EXCEPT
            !.lastWrote[m] = get_machine_processes(m_store[m], MachineId[m])]
    /\ all_processes' = NothingListed
    /\ UNCHANGED m_store
    /\ UNCHANGED NotSync

SyncListAll ==
    /\ sync_file.st = "full"
    /\ ~all_processes.listed
    /\ \E order \in Orders(DOMAIN sync_file.doc.machine_data) :
          all_processes' = [listed |-> TRUE, of |-> sync_file.doc,
                            out |-> get_all_processes(sync_file.doc, order)]
    /\ UNCHANGED <<sync_file, m_pc, m_store, m_cycles, m_hist>>
    /\ UNCHANGED NotSync

----------------------------------------------------------------------------
(* One Process receiving add_time calls while the calendar advances *)

MaxAdds == 3

Amounts == {0, 1, 5}

LedgerAdd ==
    /\ Len(ledger_calls) < MaxAdds
    /\ \E seconds \in Amounts :
          /\ ledger_proc' = add_time(ledger_proc, seconds, today)
          /\ ledger_calls' = Append(ledger_calls,
                                    [day |-> today, seconds |-> seconds])
    /\ UNCHANGED NotLedger

----------------------------------------------------------------------------
(* The pattern matcher of the white- and blacklists.  A pattern is tried   *)
(* as a literal and then as a regular expression; the expressions modelled *)
(* are those over literals, "." and a postfix "*", searched anywhere in    *)
(* the name, and "[" opens a class that these patterns never close.        *)

MaxPatterns == 2

Names == {<<"a">>, <<"b">>, <<"a", "b">>, <<"b", "a">>, <<"[", "a">>}

PatternSet ==
    {<<>>, <<"a">>, <<"a", "b">>, <<"b", ".">>, <<"a", "*", "b">>,
     <<"c", "*">>, <<"[", "a">>, <<"*", "a">>, <<"b", "[">>}

PatternLists == UNION {[1..n -> PatternSet] : n \in 0..MaxPatterns}

(* Regex::new: Err for an unclosed class and for a repetition of nothing *)
regex_new_ok(pattern) ==
    /\ \A i \in 1..Len(pattern) : pattern[i] /= "["
    /\ pattern /= <<>> => pattern[1] /= "*"

RECURSIVE match_here(_, _)
RECURSIVE match_star(_, _, _)

(* does the expression match a prefix of the text *)
match_here(re, text) ==
    IF re = <<>> THEN TRUE
    ELSE IF Len(re) >= 2 /\ re[2] = "*"
         THEN match_star(re[1], SubSeq(re, 3, Len(re)), text)
         ELSE /\ text /= <<>>
              /\ (re[1] = "." \/ re[1] = text[1])
              /\ match_here(Tail(re), Tail(text))

match_star(c, re, text) ==
    \/ match_here(re, text)
    \/ /\ text /= <<>>
       /\ (c = "." \/ c = text[1])
       /\ match_star(c, re, Tail(text))

(* Regex::is_match: the expression matches somewhere in the text *)
is_match(re, text) ==
    \E k \in 0..Len(text) : match_here(re, SubSeq(text, k + 1, Len(text)))

RECURSIVE matches_until_invalid(_, _)
(* a matcher that gives up at the first pattern that does not compile *)
matches_until_invalid(process_name, patterns) ==
    IF patterns = <<>> THEN FALSE
    ELSE LET pattern == Head(patterns)
         IN  IF pattern = process_name THEN TRUE
             ELSE IF ~regex_new_ok(pattern) THEN FALSE
             ELSE IF is_match(pattern, process_name) THEN TRUE
             ELSE matches_until_invalid(process_name, Tail(patterns))

RECURSIVE matches_any_pattern(_, _)
matches_any_pattern(process_name, patterns) ==
    IF patterns = <<>> THEN FALSE
    ELSE LET pattern == Head(patterns)
         IN  IF pattern = process_name THEN TRUE
             ELSE IF regex_new_ok(pattern) /\ is_match(pattern, process_name)
                  THEN TRUE
             ELSE matches_any_pattern(process_name, Tail(patterns))

MatchApply ==
    /\ match_out = None
    /\ match_out' = Some(matches_any_pattern(match_in.process_name,
                                             match_in.patterns))
    /\ UNCHANGED match_in
    /\ UNCHANGED NotMatch

----------------------------------------------------------------------------
(* The report's filter: list_processes keeps the windows that pass the     *)
(* mode of the list options and the tag filter.                            *)

MaxWindows == 2

Window(title, tags) == [ProcessNew(title, 1) EXCEPT !.tags = tags]

WindowSet ==
    {Window(<<"a">>, <<"x">>), Window(<<"a", "b">>, <<>>),
     Window(<<"b">>, <<"X", "y">>), Window(<<"[", "a">>, <<"y", "x">>)}

WindowLists == UNION {[1..n -> WindowSet] : n \in 0..MaxWindows}

OptionLists ==
    {None, Some(<<>>), Some(<<<<"a">>>>), Some(<<<<"[", "a">>, <<"b", ".">>>>)}

Modes == {"Whitelist", "Blacklist", "Default"}

TagFilters == {None, Some("x"), Some("X")}

unwrap_or_empty(list) == IF list = None THEN <<>> ELSE list[1]

(* a mode test whose blacklist keeps what it should drop *)
passes_mode_keeping(window, options) ==
    CASE options.mode = "Whitelist" ->
            matches_any_pattern(window.title, unwrap_or_empty(options.whitelist))
      [] options.mode = "Blacklist" ->
            matches_any_pattern(window.title, unwrap_or_empty(options.blacklist))
      [] OTHER -> TRUE

passes_mode(window, options) ==
    CASE options.mode = "Whitelist" ->
            matches_any_pattern(window.title, unwrap_or_empty(options.whitelist))
      [] options.mode = "Blacklist" ->
            ~matches_any_pattern(window.title, unwrap_or_empty(options.blacklist))
      [] OTHER -> TRUE

passes_tag(window, tag_filter) ==
    IF tag_filter /= None
    THEN \E i \in 1..Len(window.tags) : window.tags[i] = tag_filter[1]
    ELSE TRUE

filtered_windows(all_windows, options, tag_filter) ==
    LET Keep(window) == passes_mode(window, options)
                            /\ passes_tag(window, tag_filter)
    IN  SelectSeq(all_windows, Keep)

ReportFilter ==
    /\ report_out = None
    /\ report_out' = Some(filtered_windows(report_in.windows, report_in.options,
                                           report_in.tag_filter))
    /\ UNCHANGED report_in
    /\ UNCHANGED NotReport

----------------------------------------------------------------------------
(* The report: list_processes picks the source list, filters it, computes  *)
(* each window's display usage, drops the windows that show nothing and    *)
(* sorts the rest.  With all_machines unset the source list is looked up   *)
(* under get_machine_id, which writes the sidecar when it finds none.      *)

ListDates == {None, Some(1), Some(2), Some(3)}

ListWindow(title, tags, ledger) ==
    [ProcessNew(title, 1) EXCEPT !.tags = tags, !.daily_usage = ledger]

WinA == ListWindow(<<"a">>, <<"x">>, [d \in {1, 2} |-> IF d = 1 THEN 5 ELSE 3])
WinB == ListWindow(<<"b">>, <<>>, [d \in {1} |-> 5])
WinAB == ListWindow(<<"a", "b">>, <<"x">>, [d \in {2} |-> 8])
WinIdle == ListWindow(<<"b">>, <<"x">>, EmptyLedger)
WinC == ListWindow(<<"c">>, <<"x", "y">>, [d \in {1, 2} |-> IF d = 1 THEN 3 ELSE 5])

OwnLists == {<<>>, <<WinA, WinB>>, <<WinB, WinA>>, <<WinB, WinC, WinA>>,
             <<WinIdle, WinAB, WinA>>}
OtherLists == {<<>>, <<WinC>>, <<WinA, WinAB>>}

ListStore(own, other, options) ==
    [DefaultStore EXCEPT
        !.machine_data = [k \in {MachineId["m1"], MachineId["m2"]} |->
                            IF k = MachineId["m1"] THEN own ELSE other],
        !.process_list_options = options]

ListOptions ==
    {DefaultOptions,
     [DefaultOptions EXCEPT !.mode = "Blacklist", !.blacklist = Some(<<<<"c">>>>)]}

(* the sidecar of the store directory: missing, blank, or this machine's *)
Sidecars == {None, Some(<<" ">>), Some(MachineId["m1"])}

ProcessStats_from_process(process, day) ==
    LET today_usage == get_today_usage(process, day)
        total_usage == get_total_usage(process)
        active_days == Cardinality(DOMAIN process.daily_usage)
    IN  [title |-> process.title,
         today_usage |-> today_usage,
         total_usage |-> total_usage,
         active_days |-> active_days,
         avg_per_day |-> IF active_days > 0 THEN total_usage \div active_days
                         ELSE 0,
         tags |-> process.tags]

(* date_filter here is None or Some([date, usage]) *)
get_display_usage(stat, date_filter, today_only) ==
    IF date_filter /= None THEN date_filter[1].usage
    ELSE IF today_only THEN stat.today_usage
    ELSE stat.total_usage

(* a display usage that looks at today_only first *)
display_usage_today_first(w, date_filter, today_only, day) ==
    IF today_only THEN get_today_usage(w, day)
    ELSE IF date_filter /= None THEN usage_on(w, date_filter[1])
    ELSE get_total_usage(w)

display_usage(w, date_filter, today_only, day) ==
    IF date_filter /= None THEN usage_on(w, date_filter[1])
    ELSE IF today_only THEN get_today_usage(w, day)
    ELSE get_total_usage(w)

(* src is the window's position in the source list; no code reads it, the *)
(* properties do                                                          *)
WithSrc(all_windows) ==
    [i \in 1..Len(all_windows) |->
        [title |-> all_windows[i].title, tags |-> all_windows[i].tags,
         w |-> all_windows[i], src |-> i]]

(* statistics that keep the processes without display usage *)
list_stats_all(filtered, date_filter, today_only, day) ==
    [i \in 1..Len(filtered) |->
        [stat |-> ProcessStats_from_process(filtered[i].w, day),
         usage |-> display_usage(filtered[i].w, date_filter, today_only, day),
         src |-> filtered[i].src]]

list_stats(filtered, date_filter, today_only, day) ==
    LET Row(f) == [stat |-> ProcessStats_from_process(f.w, day),
                   usage |-> display_usage(f.w, date_filter, today_only, day),
                   src |-> f.src]
        Shown(row) == row.usage > 0
    IN  SelectSeq([i \in 1..Len(filtered) |-> Row(filtered[i])], Shown)

(* an insertion that goes in front of the rows with the same key *)
sort_insert_front(sorted, row) ==
    LET before == SelectSeq(sorted, LAMBDA r : r.usage > row.usage)
        after == SelectSeq(sorted, LAMBDA r : r.usage <= row.usage)
    IN  before \o <<row>> \o after

(* Vec::sort_by_key with Reverse(usage) is stable: a row goes behind the *)
(* rows already placed whose key is not smaller                          *)
sort_insert(sorted, row) ==
    LET before == SelectSeq(sorted, LAMBDA r : r.usage >= row.usage)
        after == SelectSeq(sorted, LAMBDA r : r.usage < row.usage)
    IN  before \o <<row>> \o after

RECURSIVE sort_by_key_rev(_)
sort_by_key_rev(stats) ==
    IF stats = <<>> THEN <<>>
    ELSE sort_insert(sort_by_key_rev(SubSeq(stats, 1, Len(stats) - 1)),
                     stats[Len(stats)])

(* stats.iter().map(|(_, u)| *u).max().unwrap_or(1) *)
max_usage(stats) ==
    IF stats = <<>> THEN 1
    ELSE CHOOSE u \in {stats[i].usage : i \in 1..Len(stats)} :
            \A i \in 1..Len(stats) : stats[i].usage <= u

(* a row's scale is the max_usage its percentage and its bar divide by;    *)
(* with no statistics the report returns before it computes one            *)
list_rows(all_windows, options, tag_filter, today_only, date_filter, day) ==
    LET filtered == filtered_windows(WithSrc(all_windows), options, tag_filter)
        stats == sort_by_key_rev(list_stats(filtered, date_filter, today_only, day))
        Pair(row) == IF date_filter /= None
                     THEN Some([date |-> date_filter[1], usage |-> row.usage])
                     ELSE None
    IN  [i \in 1..Len(stats) |->
            [title |-> stats[i].stat.title,
             usage |-> stats[i].usage,
             shown |-> get_display_usage(stats[i].stat, Pair(stats[i]), today_only),
             scale |-> max_usage(stats),
             src |-> stats[i].src]]

ListProcesses ==
    /\ list_out = None
    /\ LET existing == read_machine_id(sidecar)
           fresh == format_machine_id(get_hostname, Uuid(uuid_next + 1))
           machine_id == IF existing /= None THEN existing[1] ELSE fresh
       IN  /\ \E order \in Orders(DOMAIN list_in.store.machine_data) :
                 LET all_windows ==
                         IF list_in.all_machines
                         THEN get_all_processes(list_in.store, order)
                         ELSE get_machine_processes(list_in.store, machine_id)
                 IN  list_out' = Some(
                         [all_windows |-> all_windows, day |-> today,
                          rows |-> list_rows(all_windows,
                                             list_in.store.process_list_options,
                                             list_in.tag_filter, list_in.today_only,
                                             list_in.date_filter, today)])
           /\ IF list_in.all_machines \/ existing /= None
              THEN UNCHANGED <<sidecar, uuid_next>>
              ELSE /\ \E written \in BOOLEAN :
                         sidecar' = IF written THEN Some(fresh) ELSE sidecar
                   /\ uuid_next' = uuid_next + 1
    /\ UNCHANGED <<list_in, env_hostname, id_pc, returned>>
    /\ UNCHANGED NotListNorId

----------------------------------------------------------------------------
(* The tag command: handle_tag_command finds the process by title in the   *)
(* hostname's list and edits its tags; a tag is a sequence of characters.  *)

TagX == <<"x">>
TagY == <<"y">>

(* what --add and --remove may carry: None or Some(comma separated text) *)
TagInputs ==
    {None,
     Some(<<"y", ",", "x">>),
     Some(<<" ", "x", " ", ",", ",", "y">>),
     Some(<<"x", ",", "x">>),
     Some(<<"x", " ", "y", ",", " ">>)}

RECURSIVE split_comma(_)
split_comma(s) ==
    LET commas == {i \in 1..Len(s) : s[i] = ","}
    IN  IF commas = {} THEN <<s>>
        ELSE <<SubSeq(s, 1, Min(commas) - 1)>>
                \o split_comma(SubSeq(s, Min(commas) + 1, Len(s)))

(* split(','), trim, drop the empty pieces *)
parse_tags(tags_str) ==
    LET pieces == split_comma(tags_str)
        trimmed == [i \in 1..Len(pieces) |-> Trim(pieces[i])]
    IN  SelectSeq(trimmed, LAMBDA t : t /= <<>>)

(* a push that does not look whether the tag is there *)
add_tag_always(tags, tag) == Append(tags, tag)

add_tag(tags, tag) ==
    IF \E i \in 1..Len(tags) : tags[i] = tag THEN tags ELSE Append(tags, tag)

remove_tag(tags, tag) ==
    LET pos == {i \in 1..Len(tags) : tags[i] = tag}
    IN  IF pos /= {}
        THEN SubSeq(tags, 1, Min(pos) - 1) \o SubSeq(tags, Min(pos) + 1, Len(tags))
        ELSE tags

RECURSIVE add_tags_loop(_, _)
add_tags_loop(tags, new_tags) ==
    IF new_tags = <<>> THEN tags
    ELSE add_tags_loop(add_tag(tags, Head(new_tags)), Tail(new_tags))

RECURSIVE remove_tags_loop(_, _)
remove_tags_loop(tags, remove_tags) ==
    IF remove_tags = <<>> THEN tags
    ELSE remove_tags_loop(remove_tag(tags, Head(remove_tags)), Tail(remove_tags))

handle_tag_command(store, process_name, add_tags, remove_tags, list_tags) ==
    LET s == get_current_machine_processes_mut(store)
        found == tick_find(s.machine_data[HostKey], process_name)
        tags == s.machine_data[HostKey][Min(found)].tags
        added == IF add_tags /= None
                 THEN add_tags_loop(tags, parse_tags(add_tags[1])) ELSE tags
        removed == IF remove_tags /= None
                   THEN remove_tags_loop(added, parse_tags(remove_tags[1]))
                   ELSE added
    IN  IF found = {} THEN [ok |-> FALSE, store |-> s]
        ELSE IF list_tags THEN [ok |-> TRUE, store |-> s]
        ELSE [ok |-> TRUE,
              store |-> [s EXCEPT !.machine_data[HostKey][Min(found)].tags = removed]]

TagStore ==
    [DefaultStore EXCEPT
        !.machine_data = [k \in {HostKey} |->
                            <<ProcessNew(NameA, 1), ProcessNew(NameB, 1)>>]]

NoTagCommand ==
    [ran |-> FALSE, process_name |-> <<>>, add_tags |-> None,
     remove_tags |-> None, list_tags |-> FALSE, before |-> TagStore, ok |-> FALSE]

TagCommand ==
    /\ \E process_name \in {NameA, <<"c">>}, add_tags \in TagInputs,
          remove_tags \in TagInputs, list_tags \in BOOLEAN :
          LET r == handle_tag_command(tag_store, process_name, add_tags,
                                      remove_tags, list_tags)
          IN  /\ tag_store' = r.store
              /\ tag_last' = [ran |-> TRUE, process_name |-> process_name,
                              add_tags |-> add_tags, remove_tags |-> remove_tags,
                              list_tags |-> list_tags, before |-> tag_store,
                              ok |-> r.ok]
    /\ UNCHANGED NotTag

----------------------------------------------------------------------------
(* start and stop: start_monitoring spawns laches_mon and records its      *)
(* process id in daemon_pid; stop_monitoring kills the process with that   *)
(* id, if there is one.  Every laches_mon alive ticks once per interval.   *)

MaxStarts == 3
MaxIntervals == 2

(* start_monitoring, followed by main's save_store *)
start_monitoring(store, pid) == [store EXCEPT !.daemon_pid = pid]

StartCommand ==
    /\ mon_spawned < MaxStarts
    /\ mon_spawned' = mon_spawned + 1
    /\ mon_running' = mon_running \cup {mon_spawned'}
    /\ mon_store' = start_monitoring(mon_store, mon_spawned')
    /\ UNCHANGED <<mon_ticked, mon_clock>>
    /\ UNCHANGED NotMon

(* the processes stop_monitoring kills *)
stop_monitoring(store, running, answer) ==
    IF confirm(answer) THEN running \cap {store.daemon_pid} ELSE {}

StopCommand ==
    /\ \E answer \in Answers :
          /\ mon_running' = mon_running \ stop_monitoring(mon_store, mon_running,
                                                          answer)
          /\ mon_ticked' = mon_ticked \cap mon_running'
    /\ UNCHANGED <<mon_store, mon_spawned, mon_clock>>
    /\ UNCHANGED NotMon

(* one tick of the poller with process id pid; the watched process is live *)
MonTick(pid) ==
    /\ pid \in mon_running \ mon_ticked
    /\ mon_store' = tick_modify(mon_store, <<ProcessNew(NameA, today)>>,
                                mon_store.update_interval)
    /\ mon_ticked' = mon_ticked \cup {pid}
    /\ UNCHANGED <<mon_running, mon_spawned, mon_clock>>
    /\ UNCHANGED NotMon

(* an update interval passes *)
MonInterval ==
    /\ mon_clock < MaxIntervals
    /\ mon_clock' = mon_clock + 1
    /\ mon_ticked' = {}
    /\ UNCHANGED <<mon_store, mon_running, mon_spawned>>
    /\ UNCHANGED NotMon

----------------------------------------------------------------------------
(* The commands that edit the pattern lists and delete recorded time.      *)
(* main loads the store, runs the command and, when the command returned   *)
(* Ok, saves the in-memory store.  In this part a ledger's dates are the   *)
(* "%Y-%m-%d" texts the code compares.                                     *)

DigitChar(k) ==
    CASE k = 0 -> "0" [] k = 1 -> "1" [] k = 2 -> "2" [] k = 3 -> "3"
      [] k = 4 -> "4" [] k = 5 -> "5" [] k = 6 -> "6" [] k = 7 -> "7"
      [] k = 8 -> "8" [] k = 9 -> "9"

(* the byte order of the characters of a date *)
CharRank(c) ==
    IF c = "-" THEN 0
    ELSE 1 + (CHOOSE k \in 0..9 : DigitChar(k) = c)

TwoDigits(n) == <<DigitChar(n \div 10), DigitChar(n % 10)>>

(* the calendar around new year 2024: day 1 is 2024-01-01, day 0 2023-12-31 *)
DayToDate(n) ==
    IF n >= 1 THEN [year |-> 2024, month |-> 1, day |-> n]
    ELSE [year |-> 2023, month |-> 12, day |-> 31 + n]

(* format("%Y-%m-%d") *)
format_date(n) ==
    LET date == DayToDate(n)
    IN  TwoDigits(date.year \div 100) \o TwoDigits(date.year % 100) \o <<"-">>
            \o TwoDigits(date.month) \o <<"-">> \o TwoDigits(date.day)

(* String's <: at the first place where the texts differ, or as a prefix *)
str_lt(a, b) ==
    \/ \E i \in 1..Min({Len(a), Len(b)}) :
          /\ \A k \in 1..i - 1 : a[k] = b[k]
          /\ CharRank(a[i]) < CharRank(b[i])
    \/ /\ Len(a) < Len(b)
       /\ \A k \in 1..Len(a) : a[k] = b[k]

RECURSIVE parse_digits(_, _)
parse_digits(s, acc) ==
    IF s = <<>> THEN Some(acc)
    ELSE IF \E k \in 0..9 : DigitChar(k) = Head(s)
         THEN parse_digits(Tail(s), 10 * acc + CharRank(Head(s)) - 1)
         ELSE None

(* str::parse::<i64> *)
parse_i64(s) ==
    CASE s = <<>> -> None
      [] s /= <<>> /\ Head(s) = "-" ->
            IF Len(s) = 1 \/ parse_digits(Tail(s), 0) = None THEN None
            ELSE Some(0 - parse_digits(Tail(s), 0)[1])
      [] OTHER -> parse_digits(s, 0)

(* a parse that lets a window of zero or fewer days through *)
parse_duration_any_sign(duration_str) ==
    IF duration_str = <<>> \/ duration_str[Len(duration_str)] /= "d" THEN None
    ELSE parse_i64(SubSeq(duration_str, 1, Len(duration_str) - 1))

(* Some(days), or None where the code returns an error *)
parse_duration(duration_str) ==
    IF duration_str = <<>> \/ duration_str[Len(duration_str)] /= "d" THEN None
    ELSE LET days == parse_i64(SubSeq(duration_str, 1, Len(duration_str) - 1))
         IN  IF days = None THEN None
             ELSE IF days[1] <= 0 THEN None
             ELSE days

Durations ==
    {<<"3", "d">>, <<"1", "d">>, <<"0", "d">>, <<"-", "1", "d">>, <<"3">>, <<"d">>}

CmdPatterns == {<<"a">>, <<"[", "a">>}

list_of(store, is_whitelist) ==
    IF is_whitelist THEN store.process_list_options.whitelist
    ELSE store.process_list_options.blacklist

with_list(store, is_whitelist, list) ==
    IF is_whitelist THEN [store EXCEPT !.process_list_options.whitelist = list]
    ELSE [store EXCEPT !.process_list_options.blacklist = list]

contains(list_vec, pattern) == \E i \in 1..Len(list_vec) : list_vec[i] = pattern

(* an add that stores the pattern before it asks *)
add_to_list_eager(store, pattern, is_regex, is_whitelist, answer) ==
    [ok |-> ~is_regex \/ regex_new_ok(pattern), prompted |-> is_regex,
     store |-> with_list(store, is_whitelist,
                  Some(Append(unwrap_or_empty(list_of(store, is_whitelist)), pattern)))]

add_to_list(store, pattern, is_regex, is_whitelist, answer) ==
    LET list == unwrap_or_empty(list_of(store, is_whitelist))
    IN  IF is_regex /\ ~regex_new_ok(pattern)
        THEN [ok |-> FALSE, prompted |-> FALSE, store |-> store]
        ELSE IF is_regex /\ ~confirm(answer)
        THEN [ok |-> TRUE, prompted |-> TRUE, store |-> store]
        ELSE IF contains(list, pattern)
        THEN [ok |-> TRUE, prompted |-> is_regex,
              store |-> with_list(store, is_whitelist, Some(list))]
        ELSE [ok |-> TRUE, prompted |-> is_regex,
              store |-> with_list(store, is_whitelist, Some(Append(list, pattern)))]

(* a removal that leaves the emptied list in place *)
remove_from_list_keeping(store, pattern, is_whitelist) ==
    LET list == list_of(store, is_whitelist)
        pos == IF list = None THEN {}
               ELSE {i \in 1..Len(list[1]) : list[1][i] = pattern}
        rest == IF list = None THEN <<>>
                ELSE SubSeq(list[1], 1, Min(pos \cup {Len(list[1]) + 1}) - 1)
                        \o SubSeq(list[1], Min(pos \cup {Len(list[1])}) + 1,
                                  Len(list[1]))
    IN  IF pos = {} THEN [ok |-> FALSE, err |-> "not found", store |-> store]
        ELSE [ok |-> TRUE, err |-> "",
              store |-> with_list(store, is_whitelist, Some(rest))]

(* a removal that takes every occurrence of the pattern *)
remove_from_list_every(store, pattern, is_whitelist) ==
    LET list == list_of(store, is_whitelist)
        rest == IF list = None THEN <<>>
                ELSE SelectSeq(list[1], LAMBDA p : p /= pattern)
    IN  IF list = None THEN [ok |-> FALSE, err |-> "is empty", store |-> store]
        ELSE IF ~contains(list[1], pattern)
        THEN [ok |-> FALSE, err |-> "not found", store |-> store]
        ELSE [ok |-> TRUE, err |-> "",
              store |-> with_list(store, is_whitelist,
                           IF rest = <<>> THEN None ELSE Some(rest))]

remove_from_list(store, pattern, is_whitelist) ==
    LET list == list_of(store, is_whitelist)
    IN  IF list /= None
        THEN LET list_vec == list[1]
                 pos == {i \in 1..Len(list_vec) : list_vec[i] = pattern}
                 removed == SubSeq(list_vec, 1, Min(pos) - 1)
                               \o SubSeq(list_vec, Min(pos) + 1, Len(list_vec))
             IN  IF pos /= {}
                 THEN [ok |-> TRUE, err |-> "",
                       store |-> with_list(store, is_whitelist,
                                    IF removed = <<>> THEN None ELSE Some(removed))]
                 ELSE [ok |-> FALSE, err |-> "not found", store |-> store]
        ELSE [ok |-> FALSE, err |-> "is empty", store |-> store]

clear_list(store, is_whitelist, answer) ==
    LET list == list_of(store, is_whitelist)
    IN  IF list /= None
        THEN IF Len(list[1]) = 0
             THEN [ok |-> TRUE, prompted |-> FALSE, store |-> store]
             ELSE [ok |-> TRUE, prompted |-> TRUE,
                   store |-> IF confirm(answer)
                             THEN with_list(store, is_whitelist, None)
                             ELSE store]
        ELSE [ok |-> TRUE, prompted |-> FALSE, store |-> store]

(* reset_store: remove the file, load_or_create_store writes the default *)
reset_store == Full(DefaultStore)

confirm_reset_store(file_now, answer) ==
    IF confirm(answer) THEN reset_store ELSE file_now

dates_to_remove(process, cutoff_str) ==
    {date \in DOMAIN process.daily_usage : str_lt(date, cutoff_str)}

delete_older(list, cutoff_str) ==
    [i \in 1..Len(list) |->
        [list[i] EXCEPT !.daily_usage =
            [date \in DOMAIN @ \ dates_to_remove(list[i], cutoff_str) |-> @[date]]]]

RECURSIVE total_deleted(_, _)
total_deleted(list, cutoff_str) ==
    IF list = <<>> THEN 0
    ELSE Cardinality(dates_to_remove(Head(list), cutoff_str))
            + total_deleted(Tail(list), cutoff_str)

confirm_delete_store(store, delete_all, duration, answer, day) ==
    LET unchanged == [ok |-> TRUE, prompted |-> TRUE, store |-> store, deleted |-> 0]
        failed == [ok |-> FALSE, prompted |-> FALSE, store |-> store, deleted |-> 0]
    IN  IF ~delete_all /\ duration = None THEN failed
        ELSE IF delete_all /\ duration /= None THEN failed
        ELSE IF delete_all
        THEN [unchanged EXCEPT !.store = confirm_delete_all(store, answer)]
        ELSE LET days == parse_duration(duration[1])
                 cutoff_str == format_date(day - days[1])
                 s == get_current_machine_processes_mut(store)
             IN  IF days = None THEN failed
                 ELSE IF confirm(answer)
                 THEN [ok |-> TRUE, prompted |-> TRUE,
                       store |-> [s EXCEPT !.machine_data[HostKey] =
                                     delete_older(@, cutoff_str)],
                       deleted |-> total_deleted(s.machine_data[HostKey], cutoff_str)]
                 ELSE unchanged

(* the ledger entries an export keeps: all of them without a cutoff *)
export_ledger(process, cutoff_date) ==
    IF cutoff_date = None THEN process.daily_usage
    ELSE [date \in {d \in DOMAIN process.daily_usage :
                        ~str_lt(d, cutoff_date[1])} |-> process.daily_usage[date]]

(* an export that keeps the processes without usage *)
export_keep_idle(processes_to_export, cutoff_date) ==
    [i \in 1..Len(processes_to_export) |->
        LET exported_process ==
                [processes_to_export[i] EXCEPT
                    !.daily_usage = export_ledger(processes_to_export[i], cutoff_date)]
        IN  [usage |-> get_total_usage(exported_process), p |-> exported_process]]

export_processes(processes_to_export, cutoff_date) ==
    SelectSeq(export_keep_idle(processes_to_export, cutoff_date),
              LAMBDA row : row.usage > 0)

(* order says how HashMap::values walks machine_data; written says whether *)
(* the output file could be created and written                            *)
export_store(store, duration, all_machines, order, written, day) ==
    LET days == IF duration = None THEN None ELSE parse_duration(duration[1])
        cutoff_date == IF duration = None THEN None
                       ELSE Some(format_date(day - days[1]))
        processes_to_export == IF all_machines THEN get_all_processes(store, order)
                               ELSE get_current_machine_processes(store)
        sorted == sort_by_key_rev(export_processes(processes_to_export, cutoff_date))
    IN  IF duration /= None /\ days = None
        THEN [ok |-> FALSE, prompted |-> FALSE, exported |-> <<>>]
        ELSE IF ~written THEN [ok |-> FALSE, prompted |-> FALSE, exported |-> <<>>]
        ELSE [ok |-> TRUE, prompted |-> FALSE,
              exported |-> [i \in 1..Len(sorted) |-> sorted[i].p]]
CmdDays == {2, 10}

Recorded(title, tags, days) ==
    [ProcessNew(title, 1) EXCEPT
        !.tags = tags,
        !.daily_usage = [date \in {format_date(n) : n \in days} |->
                            CharRank(date[Len(date)]) + 1]]

(* recorded time under the hostname and under a machine identifier *)
CmdSeededStore ==
    [DefaultStore EXCEPT
        !.machine_data =
            [k \in {HostKey, MachineId["m1"]} |->
                IF k = HostKey
                THEN <<Recorded(NameA, <<"x">>, {-1, 5, 9}),
                       Recorded(NameB, <<>>, {1, 7})>>
                ELSE <<Recorded(NameA, <<>>, {-2})>>]]

NoCommand ==
    [op |-> "none", pattern |-> <<>>, is_regex |-> FALSE, is_whitelist |-> FALSE,
     answer |-> <<>>, delete_all |-> FALSE, duration |-> None, ok |-> FALSE,
     err |-> "", prompted |-> FALSE, deleted |-> 0,
     all_machines |-> FALSE, exported |-> <<>>,
     process_name |-> <<>>, add_tags |-> None, remove_tags |-> None,
     list_tags |-> FALSE,
     store_before |-> DefaultStore, file_before |-> Truncated]

(* what a command has seen and returned *)
Ran(op, r, answer) ==
    [NoCommand EXCEPT !.op = op, !.ok = r.ok, !.prompted = r.prompted,
                      !.answer = answer,
                      !.store_before = cmd_store, !.file_before = cmd_file]

(* main returns on an Err before it reaches save_store *)
AfterCommand(ok) == IF ok THEN "ran" ELSE "idle"

CmdLoad ==
    /\ cmd_pc = "idle"
    /\ cmd_store' = cmd_file.doc
    /\ cmd_pc' = "loaded"
    /\ cmd_last' = NoCommand
    /\ UNCHANGED cmd_file
    /\ UNCHANGED NotCmd

CmdAdd ==
    /\ cmd_pc = "loaded"
    /\ \E pattern \in CmdPatterns, is_regex \in BOOLEAN, is_whitelist \in BOOLEAN,
          answer \in Answers :
          LET r == add_to_list(cmd_store, pattern, is_regex, is_whitelist, answer)
          IN  /\ cmd_store' = r.store
              /\ cmd_pc' = AfterCommand(r.ok)
              /\ cmd_last' = [Ran("add", r, answer) EXCEPT
                                !.pattern = pattern, !.is_regex = is_regex,
                                !.is_whitelist = is_whitelist]
    /\ UNCHANGED cmd_file
    /\ UNCHANGED NotCmd

CmdRemove ==
    /\ cmd_pc = "loaded"
    /\ \E pattern \in CmdPatterns, is_whitelist \in BOOLEAN :
          LET r == remove_from_list(cmd_store, pattern, is_whitelist)
          IN  /\ cmd_store' = r.store
              /\ cmd_pc' = AfterCommand(r.ok)
              /\ cmd_last' = [NoCommand EXCEPT
                                !.op = "remove", !.ok = r.ok, !.err = r.err,
                                !.pattern = pattern, !.is_whitelist = is_whitelist,
                                !.store_before = cmd_store,
                                !.file_before = cmd_file]
    /\ UNCHANGED cmd_file
    /\ UNCHANGED NotCmd

CmdClear ==
    /\ cmd_pc = "loaded"
    /\ \E is_whitelist \in BOOLEAN, answer \in Answers :
          LET r == clear_list(cmd_store, is_whitelist, answer)
          IN  /\ cmd_store' = r.store
              /\ cmd_pc' = AfterCommand(r.ok)
              /\ cmd_last' = [Ran("clear", r, answer) EXCEPT
                                !.is_whitelist = is_whitelist]
    /\ UNCHANGED cmd_file
    /\ UNCHANGED NotCmd

CmdReset ==
    /\ cmd_pc = "loaded"
    /\ \E answer \in Answers :
          /\ cmd_file' = confirm_reset_store(cmd_file, answer)
          /\ cmd_last' = Ran("reset", [ok |-> TRUE, prompted |-> TRUE], answer)
    /\ cmd_pc' = AfterCommand(TRUE)
    /\ UNCHANGED cmd_store
    /\ UNCHANGED NotCmd

CmdDelete ==
    /\ cmd_pc = "loaded"
    /\ \E delete_all \in BOOLEAN, duration \in {None} \cup {Some(d) : d \in Durations},
          answer \in Answers :
          LET r == confirm_delete_store(cmd_store, delete_all, duration, answer,
                                        today)
          IN  /\ cmd_store' = r.store
              /\ cmd_pc' = AfterCommand(r.ok)
              /\ cmd_last' = [Ran("delete", r, answer) EXCEPT
                                !.delete_all = delete_all, !.duration = duration,
                                !.deleted = r.deleted]
    /\ UNCHANGED cmd_file
    /\ UNCHANGED NotCmd

CmdExport ==
    /\ cmd_pc = "loaded"
    /\ \E duration \in {None} \cup {Some(d) : d \in Durations},
          all_machines \in BOOLEAN, written \in BOOLEAN,
          order \in Orders(DOMAIN cmd_store.machine_data) :
          LET r == export_store(cmd_store, duration, all_machines, order, written,
                                today)
          IN  /\ cmd_pc' = AfterCommand(r.ok)
              /\ cmd_last' = [Ran("export", r, <<>>) EXCEPT
                                !.duration = duration,
                                !.all_machines = all_machines,
                                !.exported = r.exported]
    /\ UNCHANGED <<cmd_file, cmd_store>>
    /\ UNCHANGED NotCmd
CmdTag ==
    /\ cmd_pc = "loaded"
    /\ \E process_name \in {NameA, <<"c">>}, add_tags \in TagInputs,
          remove_tags \in TagInputs, list_tags \in BOOLEAN :
          LET r == handle_tag_command(cmd_store, process_name, add_tags,
                                      remove_tags, list_tags)
          IN  /\ cmd_store' = r.store
              /\ cmd_pc' = AfterCommand(r.ok)
              /\ cmd_last' = [NoCommand EXCEPT
                                !.op = "tag", !.ok = r.ok,
                                !.process_name = process_name,
                                !.add_tags = add_tags,
                                !.remove_tags = remove_tags,
                                !.list_tags = list_tags,
                                !.store_before = cmd_store,
                                !.file_before = cmd_file]
    /\ UNCHANGED cmd_file
    /\ UNCHANGED NotCmd
CmdSave ==
    /\ cmd_pc = "ran"
    /\ cmd_file' = save_store_write(cmd_store)
    /\ cmd_pc' = "idle"
    /\ UNCHANGED <<cmd_store, cmd_last>>
    /\ UNCHANGED NotCmd

----------------------------------------------------------------------------
(* Specifications *)

InitMain ==
    /\ \E s \in InitStores :
          /\ file = Full(s)
          /\ hist = [NoHist EXCEPT !.lastTickDoc = s]
    /\ today = 1
    /\ pollerPc = "sleep"
    /\ r_store = DefaultStore
    /\ snapshot = <<>>
    /\ ticksDone = 0
    /\ cliPc = "idle"
    /\ laches_store = DefaultStore
    /\ cliRuns = 0

InitSync ==
    /\ sync_file = Full(DefaultStore)
    /\ m_pc = [m \in Machines |-> "idle"]
    /\ m_store = [m \in Machines |-> DefaultStore]
    /\ m_cycles = [m \in Machines |-> 0]
    /\ m_hist = NoSyncHist
    /\ all_processes = NothingListed

InitId ==
    /\ env_hostname = <<"h">>
    /\ sidecar = None
    /\ id_pc = [p \in IdProcs |-> "idle"]
    /\ uuid_next = 0
    /\ returned = <<>>

InitLedger ==
    /\ ledger_proc = ProcessNew(NameA, 1)
    /\ ledger_calls = <<>>

InitMatch ==
    /\ match_in = [process_name |-> <<>>, patterns |-> <<>>]
    /\ match_out = None

InitReport ==
    /\ report_in = [windows |-> <<>>, options |-> DefaultOptions,
                    tag_filter |-> None]
    /\ report_out = None

InitTag ==
    /\ tag_store = TagStore
    /\ tag_last = NoTagCommand

InitCmd ==
    /\ cmd_file = Full(DefaultStore)
    /\ cmd_store = DefaultStore
    /\ cmd_pc = "idle"
    /\ cmd_last = NoCommand

InitMon ==
    /\ mon_store = SeededStore
    /\ mon_running = {}
    /\ mon_spawned = 0
    /\ mon_ticked = {}
    /\ mon_clock = 0

InitList ==
    /\ list_in = [store |-> DefaultStore, tag_filter |-> None,
                  today_only |-> FALSE, date_filter |-> None,
                  all_machines |-> FALSE]
    /\ list_out = None

Init ==
    /\ InitMain
    /\ InitSync
    /\ InitId
    /\ InitLedger
    /\ InitMon
    /\ InitMatch
    /\ InitReport
    /\ InitList
    /\ InitTag
    /\ InitCmd

(* the poller alone: no other writer of the store file *)
NextPoller ==
    \/ TickRead
    \/ TickCreate
    \/ TickWrite
    \/ NextDay

SpecPoller == Init /\ [][NextPoller]_vars

(* the poller and the CLI on one store file *)
Next ==
    \/ TickRead
    \/ TickReadFail
    \/ TickCreate
    \/ TickWrite
    \/ NextDay
    \/ CliLoad
    \/ CliLoadFail
    \/ CliSetMode
    \/ CliDeleteAll
    \/ CliSaveCreate
    \/ CliSaveWrite

Spec == Init /\ [][Next]_vars

(* two machines on one synced store file *)
NextSync ==
    \/ \E m \in Machines : SyncLoad(m)
    \/ \E m \in Machines : SyncModify(m)
    \/ \E m \in Machines : SyncSave(m)
    \/ SyncListAll

SpecSync == Init /\ [][NextSync]_vars

(* processes calling get_machine_id on one store directory *)
InitIdentity ==
    /\ InitMain
    /\ InitSync
    /\ InitLedger
    /\ InitMon
    /\ InitMatch
    /\ InitReport
    /\ InitList
    /\ InitTag
    /\ InitCmd
    /\ env_hostname \in Hostnames
    /\ sidecar = None
    /\ id_pc = [p \in IdProcs |-> "idle"]
    /\ uuid_next = 0
    /\ returned = <<>>

NextIdentity ==
    \/ \E p \in IdProcs : IdRead(p)
    \/ \E p \in IdProcs : IdGenerate(p)

SpecIdentity == InitIdentity /\ [][NextIdentity]_vars

(* one Process and the calendar *)
NextLedger ==
    \/ LedgerAdd
    \/ NextDay

SpecLedger == Init /\ [][NextLedger]_vars

(* the pattern matcher applied to a name and a pattern list *)
InitMatcher ==
    /\ InitMain
    /\ InitSync
    /\ InitId
    /\ InitLedger
    /\ InitMon
    /\ InitReport
    /\ InitList
    /\ InitTag
    /\ InitCmd
    /\ \E n \in Names, ps \in PatternLists :
          match_in = [process_name |-> n, patterns |-> ps]
    /\ match_out = None

SpecMatcher == InitMatcher /\ [][MatchApply]_vars

(* the report's filter applied to a window list *)
InitFilter ==
    /\ InitMain
    /\ InitSync
    /\ InitId
    /\ InitLedger
    /\ InitMon
    /\ InitMatch
    /\ InitList
    /\ InitTag
    /\ InitCmd
    /\ \E ws \in WindowLists, mode \in Modes, wl \in OptionLists,
          bl \in OptionLists, tf \in TagFilters :
          report_in = [windows |-> ws,
                       options |-> [DefaultOptions EXCEPT !.mode = mode,
                                       !.whitelist = wl, !.blacklist = bl],
                       tag_filter |-> tf]
    /\ report_out = None

SpecFilter == InitFilter /\ [][ReportFilter]_vars

(* one report on a store, somewhere in the calendar *)
InitListing ==
    /\ InitMain
    /\ InitSync
    /\ InitLedger
    /\ InitMon
    /\ InitMatch
    /\ InitReport
    /\ InitTag
    /\ InitCmd
    /\ env_hostname = <<"h">>
    /\ sidecar \in Sidecars
    /\ id_pc = [p \in IdProcs |-> "idle"]
    /\ uuid_next = Cardinality(Machines)
    /\ returned = <<>>
    /\ \E own \in OwnLists, other \in OtherLists, options \in ListOptions,
          tf \in {None, Some("x")}, dt \in ListDates :
          list_in \in [store : {ListStore(own, other, options)},
                       tag_filter : {tf}, today_only : BOOLEAN,
                       date_filter : {dt}, all_machines : BOOLEAN]
    /\ list_out = None

NextListing ==
    \/ ListProcesses
    \/ NextDay

SpecListing == InitListing /\ [][NextListing]_vars
(* tag commands, one after the other, on a store whose processes have no tags *)
SpecTag == Init /\ [][TagCommand]_vars
(* laches invocations, one after the other, on a store without pattern lists *)
InitCommands ==
    /\ InitSync
    /\ InitId
    /\ InitLedger
    /\ InitMon
    /\ InitMatch
    /\ InitReport
    /\ InitList
    /\ InitTag
    /\ file = Full(DefaultStore)
    /\ hist = NoHist
    /\ today \in CmdDays
    /\ pollerPc = "dead"
    /\ r_store = DefaultStore
    /\ snapshot = <<>>
    /\ ticksDone = 0
    /\ cliPc = "idle"
    /\ laches_store = DefaultStore
    /\ cliRuns = 0
    /\ cmd_file \in {Full(DefaultStore), Full(CmdSeededStore)}
    /\ cmd_store = DefaultStore
    /\ cmd_pc = "idle"
    /\ cmd_last = NoCommand

NextCommands ==
    \/ CmdLoad
    \/ CmdAdd
    \/ CmdRemove
    \/ CmdClear
    \/ CmdReset
    \/ CmdDelete
    \/ CmdExport
    \/ CmdSave

SpecCommands == InitCommands /\ [][NextCommands]_vars

(* remove_from_list on any store a file can hold *)
StoredLists ==
    {None, Some(<<>>), Some(<<<<"a">>>>), Some(<<<<"[", "a">>, <<"a">>>>),
     Some(<<<<"a">>, <<"[", "a">>, <<"a">>>>),
     Some(<<<<"b">>, <<"a">>, <<"b">>, <<"a">>>>)}

InitRemove ==
    /\ InitMain
    /\ InitSync
    /\ InitId
    /\ InitLedger
    /\ InitMon
    /\ InitMatch
    /\ InitReport
    /\ InitList
    /\ InitTag
    /\ \E wl \in StoredLists, bl \in StoredLists :
          /\ cmd_store = [CmdSeededStore EXCEPT
                            !.process_list_options.whitelist = wl,
                            !.process_list_options.blacklist = bl]
          /\ cmd_file = Full(cmd_store)
    /\ cmd_pc = "loaded"
    /\ cmd_last = NoCommand

SpecRemove == InitRemove /\ [][CmdRemove]_vars
(* The tag and delete commands on a store the poller of this machine has   *)
(* written: the poller records under get_machine_id's identifier, which    *)
(* the sidecar holds.                                                      *)
PollerStore ==
    record_usage(DefaultStore, MachineId["m1"], NameA, DefaultUpdateInterval,
                 format_date(1))

(* a store with a list under the hostname as well, left by an earlier tag *)
(* or delete command                                                     *)
BothKeysStore ==
    [DefaultStore EXCEPT
        !.machine_data =
            [k \in {HostKey, MachineId["m1"]} |->
                IF k = HostKey THEN <<Recorded(NameB, <<TagX>>, {1})>>
                ELSE <<Recorded(NameA, <<>>, {-2, 1})>>]]

KeyStores == {PollerStore, BothKeysStore, TagStore}

InitKeys ==
    /\ InitMain
    /\ InitSync
    /\ InitLedger
    /\ InitMon
    /\ InitMatch
    /\ InitReport
    /\ InitList
    /\ InitTag
    /\ env_hostname = <<"h">>
    /\ sidecar = Some(MachineId["m1"])
    /\ id_pc = [p \in IdProcs |-> "idle"]
    /\ uuid_next = Cardinality(Machines)
    /\ returned = <<>>
    /\ \E store \in KeyStores :
          /\ cmd_store = store
          /\ cmd_file = Full(store)
    /\ cmd_pc = "loaded"
    /\ cmd_last = NoCommand

NextKeys ==
    \/ CmdTag
    \/ CmdDelete
    \/ CmdSave

SpecKeys == InitKeys /\ [][NextKeys]_vars
NextStart ==
    \/ StartCommand
    \/ StopCommand
    \/ \E pid \in 1..MaxStarts : MonTick(pid)
    \/ MonInterval

SpecStart == Init /\ [][NextStart]_vars

----------------------------------------------------------------------------
(* Properties of the poller and the CLI *)

Unique(list) ==
    \A i, j \in 1..Len(list) : list[i].title = list[j].title => i = j

(* the lists that stand for "this machine's process list" in a document *)
CurrentMachineLists(doc) ==
    {doc.process_information, get_current_machine_processes(doc)}

UsageIn(list, title, day) ==
    IF tick_find(list, title) = {} THEN 0
    ELSE usage_on(list[Min(tick_find(list, title))], day)

Credited(list, title, day, k) ==
    /\ Cardinality(tick_find(list, title)) = 1
    /\ \/ UsageIn(list, title, day) = k * DefaultUpdateInterval
       \/ Uptime(list, title) = k * DefaultUpdateInterval * MillisPerSecond

(* C1: with the poller as the only writer and a store that starts without  *)
(* an entry titled Watched, after k >= 1 ticks that all ran on the same    *)
(* day and all saw Watched live, the persisted list of this machine holds  *)
(* exactly one entry titled Watched, credited with k intervals (as seconds *)
(* of that day, or as the same time in the uptime counter).                *)
C1_EveryTickCredits ==
    (/\ pollerPc = "sleep"
     /\ file.st = "full"
     /\ ticksDone >= 1
     /\ hist.allLive)
    => \E list \in CurrentMachineLists(file.doc) :
          Credited(list, Watched, today, ticksDone)

(* C2: when a CLI command loads the store, a whole tick (read, add, write) *)
(* runs, and the command then saves, the file equals the command's         *)
(* in-memory store and holds, for every title live in that tick, less      *)
(* time than the tick wrote.                                               *)
C2_LaterWriteWins ==
    [][(CliSaveWrite /\ hist.winDone) =>
          /\ file' = Full(laches_store)
          /\ \A t \in hist.winLive :
                Uptime(file'.doc.process_information, t)
                    < Uptime(hist.lastTickDoc.process_information, t)]_vars

C2_Witness ==
    /\ cliPc = "exited"
    /\ hist.winDone
    /\ hist.winLive /= {}
    /\ hist.cliWroteSinceTick
    /\ file = Full(laches_store)
    /\ file.doc.process_information /= hist.lastTickDoc.process_information

(* C4: no list of the store holds two entries with one title; the snapshot *)
(* of a tick holds each name once and no blank name; and a tick appends    *)
(* entries only for titles that the list it read did not hold.             *)
C4_TitlesStayUnique ==
    /\ \A doc \in {file.doc, r_store} :
          /\ Unique(doc.process_information)
          /\ \A k \in DOMAIN doc.machine_data : Unique(doc.machine_data[k])
    /\ Unique(snapshot)
    /\ \A i \in 1..Len(snapshot) : Trim(snapshot[i].title) /= <<>>
    /\ pollerPc = "modified" =>
          LET old == file.doc.process_information
              new == r_store.process_information
          IN  /\ Len(new) >= Len(old)
              /\ \A i \in 1..Len(old) : new[i].title = old[i].title
              /\ \A i \in (Len(old) + 1)..Len(new) :
                    new[i].title \notin TitlesOf(old)

C4_Witness ==
    /\ pollerPc = "sleep"
    /\ ticksDone >= 2
    /\ hist.allLive
    /\ Cardinality(tick_find(file.doc.process_information, Watched)) = 1
    /\ Len(file.doc.process_information) = 2

(* the seconds recorded per title and date in `new` are at least those of  *)
(* `old`, list by list                                                     *)
NoDecrease(old, new) ==
    /\ \A i \in 1..Len(old.process_information) :
          LET p == old.process_information[i]
          IN  \A d \in DOMAIN p.daily_usage :
                 UsageIn(new.process_information, p.title, d) >= p.daily_usage[d]
    /\ \A k \in DOMAIN old.machine_data :
          \A i \in 1..Len(old.machine_data[k]) :
             LET p == old.machine_data[k][i]
             IN  \A d \in DOMAIN p.daily_usage :
                    UsageIn(machine_list(new, k), p.title, d) >= p.daily_usage[d]

----------------------------------------------------------------------------
(* Properties of two machines on one synced store file *)

ListInFile(m) == get_machine_processes(sync_file.doc, MachineId[m])

(* C3, as stated: once another machine has written the file, the list      *)
(* under a machine's key is the list that machine last wrote.              *)
C3_KeepsWhatOtherWrote ==
    \A a, b \in Machines :
        (a /= b /\ m_cycles[a] >= 1 /\ sync_file.st = "full")
            => ListInFile(b) = m_hist.lastWrote[b]

(* C3, amended: a save by one machine leaves under every other machine's   *)
(* key the list that was there in the document the saving machine loaded.  *)
C3_KeepsWhatItLoaded ==
    [][\A a \in Machines :
          (m_pc[a] = "modified" /\ m_pc'[a] = "idle") =>
              \A b \in Machines \ {a} :
                  get_machine_processes(sync_file'.doc, MachineId[b])
                      = get_machine_processes(m_hist.atLoad[a], MachineId[b])]_vars

C3_Witness ==
    /\ \A m \in Machines : m_cycles[m] >= 1 /\ m_pc[m] = "idle"
    /\ \E a, b \in Machines :
          /\ a /= b
          /\ ListInFile(a) = m_hist.lastWrote[a]
          /\ ListInFile(a) /= <<>>
          /\ ListInFile(b) /= <<>>
          /\ ListInFile(b) /= m_hist.lastWrote[b]

Count(list, p) == Cardinality({i \in 1..Len(list) : list[i] = p})

RECURSIVE SumOver(_, _)
SumOver(f, keys) ==
    IF keys = {} THEN 0
    ELSE LET k == CHOOSE x \in keys : TRUE
         IN  f[k] + SumOver(f, keys \ {k})

(* C7: what get_all_processes returns has as many entries as all machine   *)
(* lists together, and holds every entry of every machine's list exactly   *)
(* as often as the lists do, with its own ledger; nothing is merged.       *)
C7_AllIsConcatenation ==
    all_processes.listed =>
        LET md == all_processes.of.machine_data
            out == all_processes.out
            Everywhere(p) == SumOver([k \in DOMAIN md |-> Count(md[k], p)],
                                     DOMAIN md)
        IN  /\ Len(out) = SumOver([k \in DOMAIN md |-> Len(md[k])], DOMAIN md)
            /\ \A i \in 1..Len(out) : Count(out, out[i]) = Everywhere(out[i])
            /\ \A k \in DOMAIN md : \A i \in 1..Len(md[k]) :
                  Count(out, md[k][i]) = Everywhere(md[k][i])

C7_Witness ==
    /\ all_processes.listed
    /\ \E i, j \in 1..Len(all_processes.out) :
          /\ i /= j
          /\ all_processes.out[i].title = all_processes.out[j].title
          /\ get_total_usage(all_processes.out[i])
                < get_total_usage(all_processes.out[j])

----------------------------------------------------------------------------
(* Properties of the machine identity *)

(* C8: every call of get_machine_id returns the identifier that the first  *)
(* call returned, and an identifier is generated at most once.             *)
C8_SameIdEveryCall ==
    /\ \A i \in 1..Len(returned) : returned[i] = returned[1]
    /\ uuid_next <= 1

----------------------------------------------------------------------------
(* Properties of the ledger *)

RECURSIVE AddedOn(_, _)
(* the seconds that the calls made on `day` added *)
AddedOn(calls, day) ==
    IF calls = <<>> THEN 0
    ELSE (IF Head(calls).day = day THEN Head(calls).seconds ELSE 0)
            + AddedOn(Tail(calls), day)

RECURSIVE AddedInAll(_)
AddedInAll(calls) ==
    IF calls = <<>> THEN 0
    ELSE Head(calls).seconds + AddedInAll(Tail(calls))

CallDays == {ledger_calls[i].day : i \in 1..Len(ledger_calls)}

(* C5: after any sequence of add_time calls, today's usage is the sum      *)
(* added today, every other date's usage is the sum added on that date     *)
(* (0 if none), the total is the sum of all amounts, last_seen is the date *)
(* of the latest call, and a call leaves the entries of other dates as     *)
(* they were.                                                              *)
C5_LedgerSums ==
    /\ [](/\ get_today_usage(ledger_proc, today) = AddedOn(ledger_calls, today)
          /\ \A d \in CallDays \cup DOMAIN ledger_proc.daily_usage
                      \cup {today, today + 1} :
                usage_on(ledger_proc, d) = AddedOn(ledger_calls, d)
          /\ get_total_usage(ledger_proc) = AddedInAll(ledger_calls)
          /\ ledger_calls /= <<>> =>
                ledger_proc.last_seen = ledger_calls[Len(ledger_calls)].day)
    /\ [][LedgerAdd =>
            \A d \in DOMAIN ledger_proc.daily_usage \ {today} :
                /\ d \in DOMAIN ledger_proc'.daily_usage
                /\ ledger_proc'.daily_usage[d] = ledger_proc.daily_usage[d]]_vars

C5_Witness ==
    /\ Len(ledger_calls) >= 3
    /\ Cardinality(CallDays) >= 2
    /\ \E i, j \in 1..Len(ledger_calls) :
          /\ i < j
          /\ ledger_calls[i].day = ledger_calls[j].day
          /\ ledger_calls[i].seconds > 0
          /\ ledger_calls[j].seconds > 0
    /\ get_today_usage(ledger_proc, today) > 0
    /\ get_total_usage(ledger_proc) > get_today_usage(ledger_proc, today)

----------------------------------------------------------------------------
(* Properties of the matcher and of the report's filter *)

Hits(name, pattern) ==
    pattern = name \/ (regex_new_ok(pattern) /\ is_match(pattern, name))

HitsSome(name, patterns) ==
    \E i \in 1..Len(patterns) : Hits(name, patterns[i])

Without(list, i) == SubSeq(list, 1, i - 1) \o SubSeq(list, i + 1, Len(list))

(* C9: matches_any_pattern(n, P) is true exactly when some pattern of P    *)
(* equals n or compiles and matches n; it is false for the empty list; and *)
(* a pattern that does not compile and is not n itself changes nothing:    *)
(* the result is the result for the list without it.                       *)
C9_MatchesIffSomePatternHits ==
    match_out /= None =>
        LET n == match_in.process_name
            P == match_in.patterns
        IN  /\ match_out[1] = HitsSome(n, P)
            /\ P = <<>> => match_out[1] = FALSE
            /\ \A i \in 1..Len(P) :
                  (~regex_new_ok(P[i]) /\ P[i] /= n) =>
                      match_out[1] = matches_any_pattern(n, Without(P, i))

C9_Witness ==
    /\ match_out = Some(TRUE)
    /\ \E i, j \in 1..Len(match_in.patterns) :
          /\ i < j
          /\ ~regex_new_ok(match_in.patterns[i])
          /\ match_in.patterns[i] /= match_in.process_name
          /\ match_in.patterns[j] /= match_in.process_name
          /\ Hits(match_in.process_name, match_in.patterns[j])

(* what the report is to keep, in the words of the list modes *)
Kept(window, options, tag_filter) ==
    /\ \/ /\ options.mode = "Whitelist"
          /\ options.whitelist /= None
          /\ HitsSome(window.title, options.whitelist[1])
       \/ /\ options.mode = "Blacklist"
          /\ (options.blacklist = None
                \/ ~HitsSome(window.title, options.blacklist[1]))
       \/ options.mode = "Default"
    /\ tag_filter /= None =>
          tag_filter[1] \in {window.tags[i] : i \in 1..Len(window.tags)}

RECURSIVE KeptOf(_, _, _)
KeptOf(windows, options, tag_filter) ==
    IF windows = <<>> THEN <<>>
    ELSE (IF Kept(Head(windows), options, tag_filter)
          THEN <<Head(windows)>> ELSE <<>>)
            \o KeptOf(Tail(windows), options, tag_filter)

(* C10: the report keeps, in their order, exactly the windows that the     *)
(* mode admits (Whitelist: the title matches the whitelist, an absent      *)
(* whitelist admits nothing; Blacklist: the title does not match the       *)
(* blacklist, an absent blacklist admits everything; Default: all) and     *)
(* that, when a tag filter is given, carry that very tag.                  *)
C10_ReportKeepsByModeAndTag ==
    report_out /= None =>
        report_out[1] = KeptOf(report_in.windows, report_in.options,
                               report_in.tag_filter)

C10_Witness ==
    /\ report_out /= None
    /\ report_in.options.mode = "Blacklist"
    /\ report_in.options.blacklist /= None
    /\ report_in.tag_filter /= None
    /\ Len(report_in.windows) = 2
    /\ Len(report_out[1]) = 1

----------------------------------------------------------------------------
(* Properties of the report *)

(* the usage a report has to show for a process, by the three cases *)
ExpectedUsage(p, date_filter, today_only, day) ==
    CASE date_filter /= None ->
            IF date_filter[1] \in DOMAIN p.daily_usage
            THEN p.daily_usage[date_filter[1]] ELSE 0
      [] date_filter = None /\ today_only ->
            IF day \in DOMAIN p.daily_usage THEN p.daily_usage[day] ELSE 0
      [] OTHER -> SumOver(p.daily_usage, DOMAIN p.daily_usage)

(* C11: every row of the report shows, for the process it stands for, the   *)
(* usage recorded on the filter's date (0 when none) whenever a date filter *)
(* is given, whatever today_only says; without a date filter today's usage  *)
(* when today_only is set, and otherwise the total over all dates.          *)
C11_DisplayUsageByCase ==
    list_out /= None =>
        \A k \in 1..Len(list_out[1].rows) :
            LET row == list_out[1].rows[k]
                expected == ExpectedUsage(list_out[1].all_windows[row.src],
                                          list_in.date_filter,
                                          list_in.today_only, list_out[1].day)
            IN  row.shown = expected /\ row.usage = expected

(* a report with a date filter and today_only both set, on a day other than *)
(* the filter's date, showing a process whose usage differs between the two *)
C11_Witness ==
    /\ list_out /= None
    /\ list_in.date_filter /= None
    /\ list_in.today_only
    /\ list_in.date_filter[1] /= list_out[1].day
    /\ \E k \in 1..Len(list_out[1].rows) :
          LET p == list_out[1].all_windows[list_out[1].rows[k].src]
              day == list_out[1].day
          IN  /\ usage_on(p, day) /= usage_on(p, list_in.date_filter[1])
              /\ usage_on(p, day) > 0

(* C12: the rows come in non-increasing display usage, and rows with equal  *)
(* usage keep the relative order their processes have in the source list.   *)
C12_SortedAndStable ==
    list_out /= None =>
        \A k, l \in 1..Len(list_out[1].rows) :
            k < l =>
                LET a == list_out[1].rows[k]
                    b == list_out[1].rows[l]
                IN  /\ a.usage >= b.usage
                    /\ a.usage = b.usage => a.src < b.src

(* a report of three rows where a tie is shown and the sort moved a row *)
C12_Witness ==
    /\ list_out /= None
    /\ Len(list_out[1].rows) >= 3
    /\ \E k \in 1..Len(list_out[1].rows) - 1 :
          list_out[1].rows[k].usage = list_out[1].rows[k + 1].usage
    /\ \E k \in 1..Len(list_out[1].rows) - 1 :
          list_out[1].rows[k].src > list_out[1].rows[k + 1].src

(* C13: a report changes neither its arguments nor any file of the store    *)
(* directory, the machine-identity sidecar included.                        *)
C13_ReportTouchesNothing ==
    [][ListProcesses => /\ list_in' = list_in
                        /\ sidecar' = sidecar]_vars

----------------------------------------------------------------------------
(* Properties of the tag command *)

SetOf(list) == {list[i] : i \in 1..Len(list)}

NoDuplicates(list) == \A i, j \in 1..Len(list) : list[i] = list[j] => i = j

(* the pieces of a comma separated text, as <<first, last>> positions *)
Spans(s) ==
    {sp \in (1..Len(s) + 1) \X (0..Len(s)) :
        /\ sp[2] >= sp[1] - 1
        /\ sp[1] = 1 \/ s[sp[1] - 1] = ","
        /\ sp[2] = Len(s) \/ s[sp[2] + 1] = ","
        /\ \A k \in sp[1]..sp[2] : s[k] /= ","}

TokenOf(s, sp) == Trim(SubSeq(s, sp[1], sp[2]))

Tokens(input) ==
    IF input = None THEN {}
    ELSE {TokenOf(input[1], sp) : sp \in Spans(input[1])} \ {<<>>}

FirstAt(input, t) ==
    Min({sp[1] : sp \in {q \in Spans(input[1]) : TokenOf(input[1], q) = t}})

(* the tokens of S, each once, in the order of their first place in input *)
InInputOrder(S, input) ==
    IF S = {} THEN <<>>
    ELSE CHOOSE q \in [1..Cardinality(S) -> S] :
            \A i, j \in 1..Cardinality(S) :
                i < j => FirstAt(input, q[i]) < FirstAt(input, q[j])

TagsOf(store, title) ==
    LET list == machine_list(store, HostKey)
    IN  list[Min(tick_find(list, title))].tags

ExpectedTags(before, add_tags, remove_tags) ==
    LET added == before \o InInputOrder(Tokens(add_tags) \ SetOf(before), add_tags)
    IN  SelectSeq(added, LAMBDA t : t \notin Tokens(remove_tags))

(* C14: starting from processes without tags, after any sequence of tag     *)
(* commands no tag list holds a duplicate, an empty tag or a tag with       *)
(* leading or trailing whitespace; a command appends, in input order, the   *)
(* trimmed non-empty tokens of its add text that are not yet present, then  *)
(* deletes every tag its remove text names and ignores the ones that are    *)
(* absent, so that a tag named in both ends absent.                         *)
C14_TagListWellFormed ==
    /\ \A i \in 1..Len(machine_list(tag_store, HostKey)) :
          LET tags == machine_list(tag_store, HostKey)[i].tags
          IN  /\ NoDuplicates(tags)
              /\ \A k \in 1..Len(tags) : tags[k] /= <<>> /\ Trim(tags[k]) = tags[k]
    /\ (tag_last.ran /\ tag_last.ok /\ ~tag_last.list_tags) =>
          /\ TagsOf(tag_store, tag_last.process_name) =
                ExpectedTags(TagsOf(tag_last.before, tag_last.process_name),
                             tag_last.add_tags, tag_last.remove_tags)
          /\ \A t \in Tokens(tag_last.remove_tags) :
                t \notin SetOf(TagsOf(tag_store, tag_last.process_name))

(* a command on a tagged process that adds two tags in input order, one of  *)
(* them named by its remove text as well, together with a tag that is absent *)
C14_Witness ==
    /\ tag_last.ran /\ tag_last.ok /\ ~tag_last.list_tags
    /\ TagsOf(tag_last.before, tag_last.process_name) = <<<<"x", " ", "y">>>>
    /\ tag_last.add_tags = Some(<<" ", "x", " ", ",", ",", "y">>)
    /\ tag_last.remove_tags = Some(<<"y", ",", "x">>)
    /\ TagsOf(tag_store, tag_last.process_name) = <<<<"x", " ", "y">>>>

----------------------------------------------------------------------------
(* Properties of the list and delete commands *)

CmdTypeOK == cmd_pc \in {"idle", "loaded", "ran"}

ListsOf(store) ==
    {store.process_list_options.whitelist, store.process_list_options.blacklist}

AbsentOrDistinct(list) ==
    list = None \/ (list[1] /= <<>> /\ NoDuplicates(list[1]))

ListBefore == list_of(cmd_last.store_before, cmd_last.is_whitelist)

ListNow == list_of(cmd_store, cmd_last.is_whitelist)

Untouched ==
    /\ cmd_store = cmd_last.store_before
    /\ cmd_file = cmd_last.file_before

ListsWellFormed ==
    /\ \A list \in ListsOf(cmd_store) \cup ListsOf(cmd_file.doc) :
          AbsentOrDistinct(list)
    /\ (cmd_last.op = "remove" /\ ListBefore = Some(<<cmd_last.pattern>>)) =>
          cmd_last.ok /\ ListNow = None

AddedAgain ==
    /\ cmd_last.op = "add"
    /\ ListBefore /= None
    /\ cmd_last.pattern \in SetOf(ListBefore[1])

(* C15, as stated: from a store without lists, after any sequence of add,   *)
(* remove and clear commands each list is absent or non-empty without       *)
(* duplicates, removing the only pattern leaves the list absent, and adding *)
(* a pattern that is already in the list changes nothing and succeeds.      *)
C15_RepeatedAddSucceeds ==
    /\ ListsWellFormed
    /\ AddedAgain => (Untouched /\ cmd_last.ok)

(* C15, amended: the same, but adding a pattern that is already in the list *)
(* succeeds unless the add is marked as regex and the pattern does not      *)
(* compile; then it is an error, and the list is unchanged all the same.    *)
C15_ListsAbsentOrDistinct ==
    /\ ListsWellFormed
    /\ AddedAgain =>
          /\ Untouched
          /\ cmd_last.ok <=> ~(cmd_last.is_regex /\ ~regex_new_ok(cmd_last.pattern))

(* the only pattern of a list has been removed, in a store whose other list *)
(* holds two patterns                                                       *)
C15_Witness ==
    /\ cmd_last.op = "remove" /\ cmd_last.ok
    /\ ListBefore = Some(<<cmd_last.pattern>>)
    /\ ListNow = None
    /\ \E list \in ListsOf(cmd_store) : list /= None /\ Len(list[1]) = 2

(* C16: remove_from_list fails with "is empty" when the list is absent and  *)
(* with "not found" when the list does not hold the pattern, and then       *)
(* leaves the store as it was; it succeeds only when the pattern was there, *)
(* and then takes out one occurrence and keeps the order of the others.     *)
C16_RemoveOneOrFail ==
    cmd_last.op = "remove" =>
        IF ListBefore = None
        THEN ~cmd_last.ok /\ cmd_last.err = "is empty" /\ Untouched
        ELSE IF cmd_last.pattern \notin SetOf(ListBefore[1])
        THEN ~cmd_last.ok /\ cmd_last.err = "not found" /\ Untouched
        ELSE /\ cmd_last.ok
             /\ list_of(cmd_store, ~cmd_last.is_whitelist) =
                   list_of(cmd_last.store_before, ~cmd_last.is_whitelist)
             /\ with_list(cmd_store, cmd_last.is_whitelist, None) =
                   with_list(cmd_last.store_before, cmd_last.is_whitelist, None)
             /\ \E i \in 1..Len(ListBefore[1]) :
                   /\ ListBefore[1][i] = cmd_last.pattern
                   /\ unwrap_or_empty(ListNow) =
                         [k \in 1..Len(ListBefore[1]) - 1 |->
                             IF k < i THEN ListBefore[1][k]
                             ELSE ListBefore[1][k + 1]]

(* a pattern that stood twice in a list of four has been removed once *)
C16_Witness ==
    /\ cmd_last.op = "remove" /\ cmd_last.ok
    /\ Len(ListBefore[1]) = 4
    /\ Len(ListNow[1]) = 3
    /\ cmd_last.pattern \in SetOf(ListNow[1])

InvalidRegexAdd ==
    /\ cmd_last.op = "add"
    /\ cmd_last.is_regex
    /\ ~regex_new_ok(cmd_last.pattern)

Stored(store) ==
    UNION {SetOf(unwrap_or_empty(list)) : list \in ListsOf(store)}

(* C17, as stated: an add marked as regex whose pattern does not compile    *)
(* fails without a prompt and leaves both lists as they were, and so no     *)
(* list ever holds a pattern that does not compile.                         *)
C17_NoInvalidPatternStored ==
    /\ InvalidRegexAdd => (~cmd_last.ok /\ ~cmd_last.prompted /\ Untouched)
    /\ \A pattern \in Stored(cmd_store) \cup Stored(cmd_file.doc) :
          regex_new_ok(pattern)

(* C17, amended: an add marked as regex whose pattern does not compile      *)
(* fails without a prompt and leaves both lists as they were; a successful  *)
(* add marked as regex stores only a pattern that compiles, while an add    *)
(* without the mark stores its pattern whether it compiles or not.          *)
C17_InvalidRegexAddRejected ==
    /\ InvalidRegexAdd => (~cmd_last.ok /\ ~cmd_last.prompted /\ Untouched)
    /\ (cmd_last.op = "add" /\ cmd_last.is_regex /\ cmd_store /= cmd_last.store_before)
          => regex_new_ok(cmd_last.pattern)
    /\ (cmd_last.op = "add" /\ ~cmd_last.is_regex) =>
          cmd_last.ok /\ cmd_last.pattern \in SetOf(unwrap_or_empty(ListNow))

(* an add marked as regex with a pattern that does not compile has been     *)
(* refused on a store whose targeted list is absent                         *)
C17_Witness ==
    /\ InvalidRegexAdd
    /\ ListBefore = None
    /\ ListNow = None
    /\ cmd_last.file_before.doc /= DefaultStore

(* the answer without its blanks, in lower case *)
Said(answer) == to_lowercase(SelectSeq(answer, LAMBDA c : c /= " "))

Declined(answer) == Said(answer) \notin {<<"y">>, <<"y", "e", "s">>}

ValidDurations == {<<"1", "d">>, <<"3", "d">>}

(* the commands that ask before they act *)
Gated ==
    \/ cmd_last.op = "reset"
    \/ /\ cmd_last.op = "delete"
       /\ \/ cmd_last.delete_all /\ cmd_last.duration = None
          \/ /\ ~cmd_last.delete_all
             /\ cmd_last.duration \in {Some(d) : d \in ValidDurations}
    \/ cmd_last.op = "clear" /\ ListBefore /= None /\ ListBefore[1] /= <<>>
    \/ cmd_last.op = "add" /\ cmd_last.is_regex /\ regex_new_ok(cmd_last.pattern)

(* C18: when the answer to the prompt of a reset, a delete all, a delete by *)
(* age, a clear or an add of a regex pattern is anything but y or yes in    *)
(* any letter case, the command succeeds and leaves the in-memory store and *)
(* the store file as they were; an add without the regex mark is applied    *)
(* without a prompt.                                                        *)
C18_DeclinedChangesNothing ==
    /\ (Gated /\ Declined(cmd_last.answer)) =>
          cmd_last.ok /\ cmd_last.prompted /\ Untouched
    /\ (cmd_last.op = "add" /\ ~cmd_last.is_regex) =>
          /\ ~cmd_last.prompted
          /\ cmd_last.pattern \in SetOf(unwrap_or_empty(ListNow))

(* a delete by age on a store with recorded time has been declined with an  *)
(* answer that begins like yes, and main has saved the store                *)
C18_Witness ==
    /\ cmd_last.op = "delete" /\ ~cmd_last.delete_all
    /\ Gated
    /\ cmd_last.answer = <<"y", "e">>
    /\ cmd_pc = "idle"
    /\ cmd_last.file_before = Full(CmdSeededStore)
    /\ cmd_file = Full(CmdSeededStore)

(* the processes of a store, as <<key, position>> *)
Entries(store) ==
    {e \in (DOMAIN store.machine_data) \X (1..4) :
        e[2] <= Len(store.machine_data[e[1]])}

EntryAt(store, e) == store.machine_data[e[1]][e[2]]

SameEntries(store, before) ==
    /\ \A k \in DOMAIN before.machine_data :
          /\ k \in DOMAIN store.machine_data
          /\ Len(store.machine_data[k]) = Len(before.machine_data[k])
    /\ \A e \in Entries(store) :
          /\ e \in Entries(before)
          /\ EntryAt(store, e).title = EntryAt(before, e).title
          /\ EntryAt(store, e).tags = EntryAt(before, e).tags

(* the days of the calendar the ledgers of the model speak of *)
LedgerDays == -30..31

WindowOf(duration) ==
    CASE duration = Some(<<"1", "d">>) -> 1
      [] duration = Some(<<"3", "d">>) -> 3

ConfirmedDelete ==
    /\ cmd_last.op = "delete"
    /\ cmd_last.ok
    /\ ~Declined(cmd_last.answer)

(* the entry of day n is gone when n is before the cutoff, and as it was if not *)
CutAt(ledger, before, cutoff) ==
    \A n \in LedgerDays :
        IF n < cutoff THEN format_date(n) \notin DOMAIN ledger
        ELSE /\ format_date(n) \in DOMAIN ledger <=> format_date(n) \in DOMAIN before
             /\ format_date(n) \in DOMAIN ledger =>
                   ledger[format_date(n)] = before[format_date(n)]

Removed(before, cutoff) ==
    Cardinality({n \in LedgerDays : n < cutoff /\ format_date(n) \in DOMAIN before})

RECURSIVE SumRemoved(_, _, _)
SumRemoved(store, entries, cutoff) ==
    IF entries = {} THEN 0
    ELSE LET e == CHOOSE x \in entries : TRUE
         IN  Removed(EntryAt(store, e).daily_usage, cutoff)
                + SumRemoved(store, entries \ {e}, cutoff)

(* C19: a confirmed delete by age with a window of N days removes, for      *)
(* every process in the store, exactly the ledger entries dated before      *)
(* today minus N days, keeps the entries on or after that date with their   *)
(* values, and reports the number of entries it removed.                    *)
C19_DeleteByAgeEveryProcess ==
    (ConfirmedDelete /\ ~cmd_last.delete_all) =>
        LET cutoff == today - WindowOf(cmd_last.duration)
            before == cmd_last.store_before
        IN  /\ SameEntries(cmd_store, before)
            /\ \A e \in Entries(before) :
                  CutAt(EntryAt(cmd_store, e).daily_usage,
                        EntryAt(before, e).daily_usage, cutoff)
            /\ cmd_last.deleted = SumRemoved(before, Entries(before), cutoff)

(* C20: after a confirmed delete all every process in the store has an      *)
(* empty ledger, and the process entries, their order, their titles and     *)
(* their tags are what they were.                                           *)
C20_DeleteAllEveryProcess ==
    (ConfirmedDelete /\ cmd_last.delete_all) =>
        /\ SameEntries(cmd_store, cmd_last.store_before)
        /\ \A e \in Entries(cmd_store) :
              /\ DOMAIN EntryAt(cmd_store, e).daily_usage = {}
              /\ get_total_usage(EntryAt(cmd_store, e)) = 0

(* a delete whose arguments the command refuses *)
RefusedDelete ==
    /\ cmd_last.op = "delete"
    /\ \/ cmd_last.delete_all /\ cmd_last.duration /= None
       \/ ~cmd_last.delete_all /\ cmd_last.duration = None
       \/ /\ cmd_last.duration /= None
          /\ cmd_last.duration \notin {Some(d) : d \in ValidDurations}

(* C21: a delete given both --all and a duration, neither of them, or a     *)
(* duration that is not a positive integer followed by d returns an error   *)
(* without a prompt and leaves the in-memory store and the store file as    *)
(* they were; a delete that prompts or succeeds was given exactly one of    *)
(* the two.                                                                 *)
C21_DeleteArgumentsChecked ==
    /\ RefusedDelete =>
          /\ ~cmd_last.ok
          /\ ~cmd_last.prompted
          /\ Untouched
          /\ cmd_pc = "idle"
    /\ (cmd_last.op = "delete" /\ (cmd_last.ok \/ cmd_last.prompted)) =>
          (cmd_last.delete_all <=> cmd_last.duration = None)

(* a delete by age with a window of zero days has been refused on a store   *)
(* with recorded time                                                       *)
C21_Witness ==
    /\ RefusedDelete
    /\ ~cmd_last.delete_all
    /\ cmd_last.duration = Some(<<"0", "d">>)
    /\ cmd_last.store_before = CmdSeededStore

(* the processes an export chooses from, as <<key, position>> *)
ExportScope ==
    IF cmd_last.all_machines THEN Entries(cmd_last.store_before)
    ELSE {e \in Entries(cmd_last.store_before) : e[1] = HostKey}

(* a process with the ledger entries of the days from the cutoff on; a      *)
(* duration of None keeps every day                                         *)
KeptSince(p, duration, day) ==
    LET days == {n \in LedgerDays :
                    /\ format_date(n) \in DOMAIN p.daily_usage
                    /\ duration /= None => n >= day - WindowOf(duration)}
    IN  [p EXCEPT !.daily_usage =
            [date \in {format_date(n) : n \in days} |-> p.daily_usage[date]]]

ExportCandidate(e) ==
    KeptSince(EntryAt(cmd_last.store_before, e), cmd_last.duration, today)

PollerSteps == <<pollerPc, r_store, snapshot, ticksDone>>' /=
                   <<pollerPc, r_store, snapshot, ticksDone>>

(* C23: a tick that finds the store file unreadable ends the poller: the    *)
(* tick leaves the file as it is and counts as no tick, and from then on    *)
(* the poller takes no step and writes nothing, whatever the CLI does to    *)
(* the file afterwards.                                                     *)
C23_FailedReadEndsPoller ==
    [][/\ (pollerPc = "sleep" /\ file.st = "empty" /\ PollerSteps) =>
              /\ pollerPc' = "dead"
              /\ file' = file
              /\ ticksDone' = ticksDone
       /\ pollerPc = "dead" =>
              /\ ~PollerSteps
              /\ file' /= file => cliPc' /= cliPc]_vars

(* the poller has ended on a file the CLI had truncated, after a tick of    *)
(* its own, and the CLI has since written the whole store                   *)
C23_Witness ==
    /\ pollerPc = "dead"
    /\ ticksDone >= 1
    /\ cliPc = "exited"
    /\ file.st = "full"

(* a tick opens and parses the store file; a command loads it *)
ReaderReads ==
    \/ pollerPc = "sleep" /\ pollerPc' /= "sleep"
    \/ cliRuns' /= cliRuns

(* C24: whenever the poller or the CLI reads the store file while the other *)
(* one may be writing it, the file holds a whole document, the one from     *)
(* before that write or the one after it, never an empty file.              *)
C24_ReadersSeeWholeDocument ==
    [][ReaderReads => file.st = "full"]_vars

(* the windows of the report's source list that pass its mode and tag filter *)
Filtered(out) ==
    {i \in 1..Len(out.all_windows) :
        Kept(out.all_windows[i], list_in.store.process_list_options,
             list_in.tag_filter)}

IdleAt(out, i) ==
    ExpectedUsage(out.all_windows[i], list_in.date_filter, list_in.today_only,
                  out.day) = 0

(* C25: no process whose display usage is zero has a row in a report; every *)
(* row's percentage and bar divide by a max_usage that is at least 1 and at *)
(* least the row's usage; and when every filtered process has display      *)
(* usage zero the report has no rows, so nothing is divided.                *)
C25_NoIdleRowNoZeroScale ==
    list_out /= None =>
        LET out == list_out[1]
        IN  /\ \A k \in 1..Len(out.rows) :
                  /\ out.rows[k].usage > 0
                  /\ ~IdleAt(out, out.rows[k].src)
                  /\ out.rows[k].scale >= 1
                  /\ out.rows[k].scale >= out.rows[k].usage
            /\ (\A i \in Filtered(out) : IdleAt(out, i)) => out.rows = <<>>

(* a report over a list with an idle process in it has left that process    *)
(* out and has rows for two others                                          *)
C25_Witness ==
    /\ list_out /= None
    /\ Len(list_out[1].rows) = 2
    /\ \E i \in Filtered(list_out[1]) : IdleAt(list_out[1], i)

(* the identifier get_machine_id returns for the store directory *)
ThisMachine == read_machine_id(sidecar)

(* the list the poller writes and the report reads for this machine *)
PollerList(store) == machine_list(store, ThisMachine[1])

(* C26: the tag command finds every process the poller has recorded for     *)
(* this machine, under the identifier get_machine_id returns, and a         *)
(* confirmed delete all empties the ledgers of those processes.             *)
C26_CommandsReachPollerList ==
    ThisMachine /= None =>
        /\ (cmd_last.op = "tag"
              /\ cmd_last.process_name
                    \in TitlesOf(PollerList(cmd_last.store_before)))
              => cmd_last.ok
        /\ (ConfirmedDelete /\ cmd_last.delete_all) =>
              \A i \in 1..Len(PollerList(cmd_store)) :
                  PollerList(cmd_store)[i].daily_usage = EmptyLedger

(* C27: once a confirmed reset has run to its end, main's save included,    *)
(* the store file holds the default store and nothing of what the command   *)
(* had loaded.                                                              *)
C27_ResetLeavesDefaultOnDisk ==
    (cmd_last.op = "reset" /\ ~Declined(cmd_last.answer) /\ cmd_pc = "idle") =>
        cmd_file = Full(DefaultStore)

(* C28: a tag command that fails because no process has the given title     *)
(* leaves the store as it was: the same keys in machine_data, with the same *)
(* lists.                                                                   *)
C28_FailedTagChangesNothing ==
    (cmd_last.op = "tag" /\ ~cmd_last.ok) =>
        /\ DOMAIN cmd_store.machine_data
              = DOMAIN cmd_last.store_before.machine_data
        /\ cmd_store = cmd_last.store_before

(* an entry after a tick against the entry the tick read: everything but    *)
(* the ledger entry of the day and last_seen is as it was                   *)
SameButToday(o, n, day) ==
    /\ n.title = o.title
    /\ n.tags = o.tags
    /\ n.uptime = o.uptime
    /\ DOMAIN n.daily_usage \ {day} = DOMAIN o.daily_usage \ {day}
    /\ \A d \in DOMAIN o.daily_usage \ {day} : n.daily_usage[d] = o.daily_usage[d]

(* a list after a tick against the list the tick read *)
TickFrame(old, new, live, day) ==
    /\ Len(new) >= Len(old)
    /\ \A i \in 1..Len(old) :
          IF old[i].title \in live THEN SameButToday(old[i], new[i], day)
          ELSE new[i] = old[i]
    /\ \A i \in Len(old) + 1..Len(new) :
          new[i].title \in live \ TitlesOf(old)

(* C29: against the store it read, a tick changes in a process list only    *)
(* the ledger entry of the current date and last_seen of the entries whose  *)
(* title is live, and appends entries for live titles the list did not      *)
(* hold; tags, the ledgers of the other processes, the order of the         *)
(* entries, the keys of machine_data and the fields autostart,              *)
(* update_interval, daemon_pid and process_list_options are as read.        *)
C29_TickFrame ==
    pollerPc = "modified" =>
        LET old == file.doc
            new == r_store
            live == TitlesOf(snapshot)
        IN  /\ new.autostart = old.autostart
            /\ new.update_interval = old.update_interval
            /\ new.daemon_pid = old.daemon_pid
            /\ new.process_list_options = old.process_list_options
            /\ DOMAIN new.machine_data = DOMAIN old.machine_data
            /\ \A k \in DOMAIN old.machine_data :
                  TickFrame(old.machine_data[k], new.machine_data[k], live, today)
            /\ TickFrame(old.process_information, new.process_information,
                         live, today)

(* C30: at most one poller is alive at any time, a start while the recorded *)
(* poller runs spawns none, and the time credited to a process that is live *)
(* throughout is at most one update interval per interval begun.            *)
C30_AtMostOnePoller ==
    /\ Cardinality(mon_running) <= 1
    /\ Uptime(mon_store.process_information, NameA)
          <= Uptime(SeededStore.process_information, NameA)
                + (mon_clock + 1) * mon_store.update_interval * MillisPerSecond

====
